---- MODULE Spec2Model ----
(***************************************************************************)
(* Model of the order routes of the multi-tenant veterinary backend:       *)
(* tenant resolution (src/src/index.ts), the client-token and tenant       *)
(* guards and the order-creation transaction (src/src/routes/              *)
(* orderRoutes.ts, the version with the 10-day pickup window), the         *)
(* "my-orders" read, the catalog routes of productAdminRoutes.ts, the      *)
(* appointment routes, and the account routes: tenant registration, client *)
(* registration and login, and the management of staff                     *)
(* (clientAuthRoutes.ts and the route files without a name).               *)
(*                                                                         *)
(* Strings are sequences of atoms (words and separators), so that          *)
(* String.split is computed and not assumed.  Money is an exact integer    *)
(* number of currency units.  Every await of a handler is a step of its    *)
(* own; the synchronous code between two awaits is one step, as on Node's  *)
(* single thread.                                                          *)
(***************************************************************************)
EXTENDS Integers, Sequences, FiniteSets, TLC

VARIABLES
    tenants,      \* table tenants: set of rows [id, tenant_id]
    products,     \* table products (committed rows): id -> [tenant_id, price, stock, is_available]
    orders,       \* table orders (committed rows), in insertion order
    order_items,  \* table order_items (committed rows), in insertion order
    nextOrderId,  \* AUTO_INCREMENT counter of orders
    locks,        \* exclusive row locks on products: id -> holding request, or NoHolder
    tx,           \* per request: the uncommitted writes of its open transaction
    req,          \* per request: position and locals of its middleware chain and handler
    nedits,       \* catalog statements executed so far
    clients,      \* table clients: set of rows [id, tenant_id, email, password]
    appointments, \* table appointments, in insertion order
    areq,         \* per appointment request: position and locals of its chain and handler
    images,       \* table images: set of rows [id, tenant_id]
    product_images, \* table product_images: set of rows [product_id, image_id]
    nextImageId,  \* AUTO_INCREMENT counter of images
    creq,         \* the catalog request of an administrator: position and locals
    staff,        \* table staff: set of rows [id, tenant_id, email, role]
    insertId,     \* AUTO_INCREMENT counters of tenants, staff and clients
    sreq          \* per account request: position and locals of its chain and handler

\* The variables of the catalog routes.
adminVars == <<images, product_images, nextImageId, creq>>

\* The variables of the staff, registration and login routes.
accountVars == <<staff, insertId, sreq>>

vars == <<tenants, products, orders, order_items, nextOrderId, locks, tx, req, nedits,
          clients, appointments, areq, adminVars, accountVars>>

(***************************************************************************)
(* Bounds                                                                  *)
(***************************************************************************)
MaxCatalogEdits == 1
MaxStock == 3

Reqs == {1, 2}
NoHolder == 0

(***************************************************************************)
(* Strings                                                                 *)
(***************************************************************************)
Undefined == <<"<undefined>">>

\* JavaScript truthiness of a string-or-undefined value.
Falsy(s) == s = Undefined \/ s = << >>

RECURSIVE SplitFrom(_, _, _)
SplitFrom(s, sep, cur) ==
    IF s = << >> THEN <<cur>>
    ELSE IF Head(s) = sep THEN <<cur>> \o SplitFrom(Tail(s), sep, << >>)
    ELSE SplitFrom(Tail(s), sep, Append(cur, Head(s)))

\* String.prototype.split(sep)
Split(s, sep) == SplitFrom(s, sep, << >>)

\* Array indexing / destructuring: a missing element is undefined (1-based here).
At(parts, k) == IF k <= Len(parts) THEN parts[k] ELSE Undefined

Includes(s, a) == \E k \in 1..Len(s) : s[k] = a

NaN == 0 - 1
DigitAtoms == {"1", "2", "3"}
DigitVal(a) == CASE a = "1" -> 1 [] a = "2" -> 2 [] a = "3" -> 3 [] OTHER -> NaN

\* parseInt(s, 10) on a string of at most one atom: a digit atom parses, anything else is NaN.
ParseInt(s) == IF Len(s) >= 1 /\ s[1] \in DigitAtoms THEN DigitVal(s[1]) ELSE NaN

(***************************************************************************)
(* Tenant resolution and the guards of the order routes                    *)
(***************************************************************************)
DefaultSlug == <<"chavez">>

\* index.ts resolveTenant: the first label of the host name, or, without a
\* subdomain, the x-tenant-slug header, or the default.
ResolveTenant(hostname, xTenantSlug) ==
    IF hostname # <<"localhost">>
       /\ hostname # <<"127", ".", "0", ".", "0", ".", "1">>
       /\ Includes(hostname, ".")
    THEN At(Split(hostname, "."), 1)
    ELSE IF Falsy(xTenantSlug) THEN DefaultSlug ELSE xTenantSlug

NoUser == [id |-> NaN, tenant_id |-> Undefined, role |-> "none"]

\* The bearer token of an Authorization header: authHeader?.split(' ')[1]
BearerToken(authorization) ==
    IF authorization = Undefined THEN Undefined
    ELSE At(Split(authorization, " "), 2)

\* Faulty variant: the role field of the token is not compared with 'client'.
VerifyClientTokenAnyRole(authorization) ==
    LET token == BearerToken(authorization)
        parts == Split(token, ":")
    IN  IF Falsy(token) THEN [status |-> 401, user |-> NoUser]
        ELSE IF Falsy(At(parts, 1)) \/ Falsy(At(parts, 3))
             THEN [status |-> 401, user |-> NoUser]
             ELSE [status |-> 0,
                   user |-> [id |-> ParseInt(At(parts, 3)),
                             tenant_id |-> At(parts, 1), role |-> "client"]]

\* orderRoutes.ts verifyClientToken: status 0 stands for next().
VerifyClientToken(authorization) ==
    LET token == BearerToken(authorization)
        parts == Split(token, ":")
        tenant_slug == At(parts, 1)
        role == At(parts, 2)
        client_id == At(parts, 3)
    IN  IF Falsy(token) THEN [status |-> 401, user |-> NoUser]
        ELSE IF Falsy(tenant_slug) \/ role # <<"client">> \/ Falsy(client_id)
             THEN [status |-> 401, user |-> NoUser]
             ELSE [status |-> 0,
                   user |-> [id |-> ParseInt(client_id),
                             tenant_id |-> tenant_slug, role |-> "client"]]

NullTenant == [id |-> 0, slug |-> Undefined]

\* orderRoutes.ts getTenantInfoBySlug: SELECT id, tenant_id FROM tenants WHERE tenant_id = ?
GetTenantInfoBySlug(tenantSlug) ==
    IF \E t \in tenants : t.tenant_id = tenantSlug
    THEN LET t == CHOOSE t \in tenants : t.tenant_id = tenantSlug
         IN  [id |-> t.id, slug |-> t.tenant_id]
    ELSE NullTenant

\* Faulty variant: the credential's slug is compared with the tenant named in the body.
TenantAccessStatusByBody(tenantInfo, user, requestedTenantSlug, body) ==
    IF tenantInfo = NullTenant THEN 404
    ELSE IF user = NoUser \/ user.tenant_id # body.tenantId THEN 403
    ELSE 0

\* orderRoutes.ts ensureTenantAccess after its tenant lookup: 404 for an unknown
\* tenant, 403 when the credential's slug is not the resolved one, 0 for next().
TenantAccessStatus(tenantInfo, user, requestedTenantSlug, body) ==
    IF tenantInfo = NullTenant THEN 404
    ELSE IF user = NoUser \/ user.tenant_id # requestedTenantSlug THEN 403
    ELSE 0

(***************************************************************************)
(* Validation of the body of POST /api/orders                              *)
(***************************************************************************)
HoursPerDay == 24
MaxPickupDays == 10
MissingDate == 0 - 1

\* new Date(); setHours(0, 0, 0, 0): local midnight of the current day, in hours.
StartOfDay(now) == (now \div HoursPerDay) * HoursPerDay

\* new Date(pickupDate + 'T00:00:00').getTime(): local midnight of that day, in hours.
DateAtMidnight(day) == day * HoursPerDay

\* Faulty variant: a pickup date of today passes ("<" for "<=").
PickupDateStatusTodayAllowed(pickupDate, now) ==
    LET today == StartOfDay(now)
        selectedDate == DateAtMidnight(pickupDate)
        maxDate == today + MaxPickupDays * HoursPerDay
    IN  IF selectedDate < today THEN 400
        ELSE IF selectedDate > maxDate THEN 400
        ELSE 0

\* orderRoutes.ts 268-282: the pickup window, 0 when the date passes.
PickupDateStatus(pickupDate, now) ==
    LET today == StartOfDay(now)
        selectedDate == DateAtMidnight(pickupDate)
        maxDate == today + MaxPickupDays * HoursPerDay
    IN  IF selectedDate <= today THEN 400
        ELSE IF selectedDate > maxDate THEN 400
        ELSE 0

\* Faulty variant: the pickup window is not checked at all (the first version of the route).
ValidateOrderBodyNoWindow(body, now) ==
    IF ~body.hasItems \/ Len(body.items) = 0 \/ body.pickupDate = MissingDate THEN 400
    ELSE 0

\* orderRoutes.ts 263-282: everything the handler checks before it asks for a connection.
ValidateOrderBody(body, now) ==
    IF ~body.hasItems \/ Len(body.items) = 0 \/ body.pickupDate = MissingDate THEN 400
    ELSE PickupDateStatus(body.pickupDate, now)

(***************************************************************************)
(* Rows present when the server starts, and the requests it may receive    *)
(***************************************************************************)
Today == 20
HoursOfDay == {0, 13, 23}

TenantRows == { [id |-> 1, tenant_id |-> <<"chavez">>],
                [id |-> 2, tenant_id |-> <<"acme">>] }

\* Products 1 and 2 belong to tenant 1 (chavez), product 3 to tenant 2 (acme).
ProductIds == {1, 2, 3}
UnknownProductId == 9
InitProducts ==
    [p \in ProductIds |->
        CASE p = 1 -> [tenant_id |-> 1, price |-> 10, stock |-> MaxStock, is_available |-> TRUE]
          [] p = 2 -> [tenant_id |-> 1, price |-> 4, stock |-> 1, is_available |-> TRUE]
          [] OTHER -> [tenant_id |-> 2, price |-> 7, stock |-> 1, is_available |-> TRUE]]

\* A line of the body.  Every line also carries a price of the client's own,
\* which is the price of no product.
Line(p, q) == [productId |-> p, quantity |-> q, price |-> 1]

SingleLineLists == { <<Line(1, q)>> : q \in {1, MaxStock - 1, MaxStock, MaxStock + 1} }
                   \cup { <<Line(2, 1)>> }
MultiLineLists ==
    { <<Line(1, MaxStock - 1), Line(1, MaxStock - 1)>>,
      <<Line(1, 1), Line(2, 1)>>,
      <<Line(2, 1), Line(1, 1)>>,
      <<Line(1, 1), Line(2, 2)>>,
      <<Line(3, 1)>>,
      <<Line(1, 1), Line(UnknownProductId, 1)>> }
ItemLists == SingleLineLists \cup MultiLineLists

\* The body of a request.  Besides the fields the handler reads it carries a
\* tenantId and a clientId of the client's own; the clientId is the id of no
\* credential of the requests below.
Body(items, hasItems, pickupDate, tenantId) ==
    [items |-> items, hasItems |-> hasItems, pickupDate |-> pickupDate, tenantId |-> tenantId,
     clientId |-> 2]

Bearer(token) == <<"Bearer", " ">> \o token
ClientToken(slug, id) == <<slug, ":", "client", ":", id>>

HostChavez == [hostname |-> <<"chavez", ".", "vet", ".", "pe">>, xTenantSlug |-> Undefined]
HostLocalAcme == [hostname |-> <<"localhost">>, xTenantSlug |-> <<"acme">>]
HostLocalDefault == [hostname |-> <<"localhost">>, xTenantSlug |-> Undefined]
HostUnknown == [hostname |-> <<"nadie", ".", "vet", ".", "pe">>, xTenantSlug |-> Undefined]
HostNoSlug == [hostname |-> <<".", "vet", ".", "pe">>, xTenantSlug |-> Undefined]
Hosts == {HostChavez, HostLocalAcme, HostLocalDefault, HostUnknown, HostNoSlug}

AuthChavez1 == Bearer(ClientToken("chavez", "1"))
AuthAcme3 == Bearer(ClientToken("acme", "3"))
AuthAbsent == Undefined
AuthNoToken == <<"Bearer">>
AuthEmptySlug == Bearer(<<":", "client", ":", "1">>)
AuthUnknownRole == Bearer(<<"chavez", ":", "root", ":", "1">>)
AuthAdmin == Bearer(<<"chavez", ":", "admin">>)
AuthNoClientId == Bearer(<<"chavez", ":", "client">>)
AuthHeaders == {AuthChavez1, AuthAcme3, AuthAbsent, AuthNoToken, AuthEmptySlug,
                AuthUnknownRole, AuthAdmin, AuthNoClientId}

Routes == {"createOrder", "myOrders"}

Input(route, host, authorization, body) ==
    [route |-> route, hostname |-> host.hostname, xTenantSlug |-> host.xTenantSlug,
     authorization |-> authorization, body |-> body]

\* Requests that probe the guards: every route, host and credential, with a
\* well-formed order body that names one tenant or the other.
GuardInputs ==
    { Input(route, host, auth, Body(<<Line(1, 1)>>, TRUE, Today + 1, slug)) :
        route \in Routes, host \in Hosts, auth \in AuthHeaders,
        slug \in {<<"chavez">>, <<"acme">>} }

\* Requests of an authenticated client of chavez that probe the body validation.
PickupDates == {MissingDate, Today - 1, Today, Today + 1, Today + MaxPickupDays,
                Today + MaxPickupDays + 1}
ValidationInputs ==
    { Input("createOrder", HostChavez, AuthChavez1, Body(<<Line(1, 1)>>, TRUE, d, Undefined)) :
        d \in PickupDates }
    \cup
    { Input("createOrder", HostChavez, AuthChavez1, Body(<< >>, h, Today + 1, Undefined)) :
        h \in BOOLEAN }

\* Orders of an authenticated client of chavez, and reads of that client's history.
OrderInputs ==
    { Input("createOrder", HostChavez, AuthChavez1, Body(items, TRUE, Today + 1, Undefined)) :
        items \in ItemLists }
    \cup
    { Input("myOrders", HostChavez, AuthChavez1, Body(<< >>, FALSE, MissingDate, Undefined)) }

\* Orders of an authenticated client of chavez whose lines carry any integer
\* as quantity: the body is JSON and the handler reads item.quantity as sent.
QuantityLists ==
    { <<Line(1, q)>> : q \in {0 - 1, 0, 1} }
    \cup { <<Line(1, 1), Line(2, q)>> : q \in {0 - 1, 0} }
    \cup { <<Line(2, 1), Line(1, q)>> : q \in {0 - MaxStock, 1} }
QuantityInputs ==
    { Input("createOrder", HostChavez, AuthChavez1, Body(items, TRUE, Today + 1, Undefined)) :
        items \in QuantityLists }

\* Request 1 may be any of the requests above; request 2, the concurrent one, is
\* an order or a history read of the authenticated client.
InputsOf(r) == IF r = 1 THEN GuardInputs \cup ValidationInputs \cup OrderInputs
               ELSE OrderInputs

NoInput == Input("none", HostLocalDefault, Undefined, Body(<< >>, FALSE, MissingDate, Undefined))

NoPrices == [p \in ProductIds \cup {UnknownProductId} |-> 0]
NoDelta == [p \in ProductIds |-> 0]
NoTx == [orders |-> << >>, items |-> << >>, delta |-> NoDelta]

IdleReq ==
    [pc |-> "idle", in |-> NoInput, tenantId |-> Undefined, user |-> NoUser,
     resolvedTenant |-> NullTenant, dbAccess |-> FALSE, ran |-> FALSE, conn |-> "none",
     i |-> 0, totalAmount |-> 0, productPrices |-> NoPrices, orderId |-> 0,
     rows |-> << >>, status |-> 0, err |-> "none", total |-> 0, result |-> << >>]

(***************************************************************************)
(* POST /api/appointments/appointments: guards, rows and requests          *)
(***************************************************************************)
TokenRoles == {<<"admin">>, <<"doctor">>, <<"receptionist">>, <<"client">>}
MockUserId == 1

\* verifyToken of the appointment routes: the token is read as "slug:role", any
\* further field is ignored, and the user id is a fixed number.
VerifyTokenAppointments(authorization) ==
    LET token == BearerToken(authorization)
        parts == Split(token, ":")
        tenant_slug == At(parts, 1)
        role == At(parts, 2)
    IN  IF Falsy(token) THEN [status |-> 401, user |-> NoUser]
        ELSE IF Falsy(tenant_slug) \/ role \notin TokenRoles
             THEN [status |-> 401, user |-> NoUser]
             ELSE [status |-> 0,
                   user |-> [id |-> MockUserId, tenant_id |-> tenant_slug, role |-> role[1]]]

\* ensureSameTenant: the slug of the credential is compared with the tenantId
\* of the body, and a client's clientId with the id of req.user; 0 stands for next().
EnsureSameTenant(user, body) ==
    IF Falsy(user.tenant_id) THEN 401
    ELSE IF body.tenantId # user.tenant_id THEN 403
    ELSE IF user.role = "client" /\ body.clientId # user.id THEN 403
    ELSE 0

\* The handler's check of the required fields, 0 when all are present.
NoClientId == 0
RequiredFieldsStatus(body) ==
    IF \/ body.clientId = NoClientId \/ Falsy(body.tenantId) \/ Falsy(body.petName)
       \/ Falsy(body.petType) \/ Falsy(body.service)
       \/ body.appointmentDate = MissingDate \/ Falsy(body.appointmentTime)
    THEN 400
    ELSE 0

\* Clients 1 and 2 belong to tenant 1 (chavez), client 3 to tenant 2 (acme).
\* bcrypt.hash(password, salt)
Hash(password) == [bcrypt |-> password]

\* bcrypt.compare(password, hashed)
Compare(password, hashed) == hashed = Hash(password)

ClientRows ==
    { [id |-> 1, tenant_id |-> 1, email |-> <<"ana@mail">>, password |-> Hash(<<"ana-secret">>)],
      [id |-> 2, tenant_id |-> 1, email |-> <<"luis@mail">>, password |-> Hash(<<"luis-secret">>)],
      [id |-> 3, tenant_id |-> 2, email |-> <<"eva@mail">>, password |-> Hash(<<"eva-secret">>)] }

AuthChavez2 == Bearer(ClientToken("chavez", "2"))
AuthDoctor == Bearer(<<"chavez", ":", "doctor">>)

TimeTen == <<"10", ":", "00">>
TimeEleven == <<"11", ":", "00">>

ApptBody(clientId, tenantId, petName, appointmentTime) ==
    [clientId |-> clientId, tenantId |-> tenantId, petName |-> petName,
     petType |-> <<"perro">>, service |-> <<"consulta">>,
     appointmentDate |-> Today + 1, appointmentTime |-> appointmentTime]

ApptInput(host, authorization, body) ==
    [hostname |-> host.hostname, xTenantSlug |-> host.xTenantSlug,
     authorization |-> authorization, body |-> body]

\* Requests that probe the guards of the booking route.
ApptGuardInputs ==
    { ApptInput(host, auth, ApptBody(c, slug, <<"Luna">>, TimeTen)) :
        host \in {HostChavez, HostLocalAcme},
        auth \in {AuthChavez1, AuthChavez2, AuthAcme3, AuthAdmin, AuthDoctor,
                  AuthAbsent, AuthUnknownRole},
        c \in {1, 2, 3},
        slug \in {<<"chavez">>, <<"acme">>, <<"nadie">>} }

\* Bookings of client 1 of chavez on the chavez host, complete or not.
ApptBookingInputs ==
    { ApptInput(HostChavez, AuthChavez1, ApptBody(c, <<"chavez">>, name, time)) :
        c \in {NoClientId, 1}, name \in {<<"Luna">>, Undefined},
        time \in {TimeTen, TimeEleven, Undefined} }

ApptReqs == {1, 2}

\* Request 1 may be any of the requests above; request 2, the concurrent one, is
\* a booking of client 1.
ApptInputsOf(a) == IF a = 1 THEN ApptGuardInputs \cup ApptBookingInputs
                   ELSE ApptBookingInputs

NoApptInput == ApptInput(HostLocalDefault, Undefined,
                         ApptBody(NoClientId, Undefined, Undefined, Undefined))

IdleApptReq ==
    [pc |-> "idle", in |-> NoApptInput, tenantId |-> Undefined, user |-> NoUser,
     tenantNumericId |-> 0, status |-> 0, id |-> 0]

(***************************************************************************)
(* /api/products of an administrator: guards, rows and requests            *)
(***************************************************************************)
StaffRoles == {<<"admin">>, <<"doctor">>, <<"receptionist">>}

\* verifyToken of productAdminRoutes.ts (and of categoryAdminRoutes.ts): the
\* token is read as "slug:role"; a staff role other than admin is answered 403.
VerifyTokenAdmin(authorization) ==
    LET token == BearerToken(authorization)
        parts == Split(token, ":")
        tenant_slug == At(parts, 1)
        role == At(parts, 2)
    IN  IF Falsy(token) THEN [status |-> 401, user |-> NoUser]
        ELSE IF Falsy(tenant_slug) \/ role \notin StaffRoles
             THEN [status |-> 401, user |-> NoUser]
        ELSE IF role # <<"admin">>
             THEN [status |-> 403,
                   user |-> [id |-> MockUserId, tenant_id |-> tenant_slug, role |-> role[1]]]
        ELSE [status |-> 0,
              user |-> [id |-> MockUserId, tenant_id |-> tenant_slug, role |-> role[1]]]

\* Image 1 of chavez is the primary image of product 1, image 2 of acme that
\* of product 3; product 2 has no image.
ImageRows == { [id |-> 1, tenant_id |-> 1], [id |-> 2, tenant_id |-> 2] }
ProductImageRows == { [product_id |-> 1, image_id |-> 1], [product_id |-> 3, image_id |-> 2] }

AuthAcmeAdmin == Bearer(<<"acme", ":", "admin">>)
AuthReceptionist == Bearer(<<"chavez", ":", "receptionist">>)

CatalogOps == {"create", "update", "activate", "deactivate"}

\* A request to the product routes: the product id of the path, whether a
\* file is uploaded, and the fields of the body.
CatalogInput(op, host, authorization, productId, file, name, stock) ==
    [op |-> op, hostname |-> host.hostname, xTenantSlug |-> host.xTenantSlug,
     authorization |-> authorization, productId |-> productId, file |-> file,
     body |-> [name |-> name, price |-> 15, stock |-> stock, category_id |-> 1,
               tenantId |-> Undefined]]

\* Requests that probe the guards of the product routes.
CatalogGuardInputs ==
    { CatalogInput(op, host, auth, 1, TRUE, <<"collar">>, MaxStock) :
        op \in CatalogOps, host \in {HostChavez, HostLocalAcme, HostUnknown},
        auth \in {AuthAdmin, AuthAcmeAdmin, AuthDoctor, AuthReceptionist, AuthChavez1,
                  AuthAbsent} }

\* Requests of the administrator of chavez on the chavez host and of the
\* administrator of acme on the acme host.
CatalogAdminInputs ==
    { CatalogInput(op, who.host, who.auth, p, file, name, stock) :
        op \in CatalogOps,
        who \in { [host |-> HostChavez, auth |-> AuthAdmin],
                  [host |-> HostLocalAcme, auth |-> AuthAcmeAdmin] },
        p \in {1, 3, UnknownProductId}, file \in BOOLEAN,
        name \in {<<"collar">>, Undefined}, stock \in {0, MaxStock} }

CatalogInputs == CatalogGuardInputs \cup CatalogAdminInputs

NoCatalogInput == CatalogInput("none", HostLocalDefault, Undefined, 0, FALSE, Undefined, 0)

IdleCatalogReq ==
    [pc |-> "idle", in |-> NoCatalogInput, tenantId |-> Undefined, user |-> NoUser,
     resolvedTenant |-> NullTenant, status |-> 0,
     currentImageRows |-> {}, newImageId |-> 0, productId |-> 0, served |-> 0,
     before |-> [products |-> << >>, images |-> {}, product_images |-> {}]]

InitAdmin ==
    /\ images = ImageRows
    /\ product_images = ProductImageRows
    /\ nextImageId = 3
    /\ creq = IdleCatalogReq

(***************************************************************************)
(* Staff, tenant registration, client registration and login: rows and     *)
(* requests                                                                *)
(***************************************************************************)
\* Staff 1 administers chavez, staff 2 administers acme, staff 3 is a doctor
\* of chavez.
StaffRows ==
    { [id |-> 1, tenant_id |-> 1, email |-> <<"admin@chavez">>, role |-> <<"admin">>],
      [id |-> 2, tenant_id |-> 2, email |-> <<"admin@acme">>, role |-> <<"admin">>],
      [id |-> 3, tenant_id |-> 1, email |-> <<"doc@chavez">>, role |-> <<"doctor">>] }

AccountReqs == {1, 2}

\* process.env.EXTERNAL_API_TOKEN
ExpectedToken == <<"external-secret">>

AuthArbitrary == Bearer(<<"x">>)

\* A request to a staff route, to /register-tenant or to the client routes
\* /register and /login.  tenantIdParam is the :tenantId of the path of the
\* staff routes that read the tenant from the path.
AccountInput(route, host, authorization, externalToken, tenantIdParam, staffId, body) ==
    [route |-> route, hostname |-> host.hostname, xTenantSlug |-> host.xTenantSlug,
     authorization |-> authorization, externalToken |-> externalToken,
     tenantIdParam |-> tenantIdParam, staffId |-> staffId, body |-> body]

AccountBody(tenant_id, email, password, role) ==
    [tenant_id |-> tenant_id, name |-> <<"nombre">>, email |-> email, password |-> password,
     role |-> role]

NoAccountInput ==
    AccountInput("none", HostLocalDefault, Undefined, Undefined, Undefined, Undefined,
                 AccountBody(Undefined, Undefined, Undefined, Undefined))

\* The staff routes guarded by ensureTenantAccess (clientAuthRoutes.ts) and
\* those that read the tenant from the path (part_004).
GuardedStaffRoutes == {"staffCreate", "staffUpdate", "staffDelete"}
PathStaffRoutes == {"staffCreateByPath", "staffDeleteByPath"}
StaffRoutes == GuardedStaffRoutes \cup PathStaffRoutes

StaffInputs ==
    { AccountInput(route, host, auth, Undefined, t, id,
                   AccountBody(Undefined, <<"nueva@mail">>, <<"secret">>, <<"doctor">>)) :
        route \in StaffRoutes, host \in {HostChavez, HostLocalAcme},
        auth \in {AuthAdmin, AuthAcmeAdmin, AuthDoctor, AuthChavez1, AuthArbitrary, AuthAbsent},
        t \in {<<"1">>, <<"2">>}, id \in {<<"2">>, <<"3">>} }

\* The concurrent staff request: the administrator of acme creates a doctor.
StaffInputs2 ==
    { AccountInput(route, HostLocalAcme, AuthAcmeAdmin, Undefined, <<"2">>, <<"2">>,
                   AccountBody(Undefined, <<"nueva@mail">>, <<"secret">>, role)) :
        route \in {"staffCreate", "staffCreateByPath"}, role \in {<<"doctor">>, <<"vet">>} }

RegisterTenantInputs ==
    { AccountInput("registerTenant", HostLocalDefault, Undefined, x, Undefined, Undefined,
                   AccountBody(slug, email, <<"secret">>, Undefined)) :
        x \in {ExpectedToken, Undefined}, slug \in {<<"nuevo">>, <<"chavez">>, Undefined},
        email \in {<<"nueva@mail">>, <<"otra@mail">>, <<"ana@mail">>, <<"admin@acme">>} }

ClientRegisterInputs ==
    { AccountInput("clientRegister", host, Undefined, Undefined, Undefined, Undefined,
                   AccountBody(Undefined, email, <<"secret">>, Undefined)) :
        host \in {HostChavez, HostLocalAcme, HostUnknown},
        email \in {<<"nueva@mail">>, <<"ana@mail">>, <<"admin@acme">>, Undefined} }

\* The administrator of chavez creates a member of the staff.
StaffCreateInputs ==
    { AccountInput("staffCreate", HostChavez, AuthAdmin, Undefined, Undefined, Undefined,
                   AccountBody(Undefined, email, <<"secret">>, <<"doctor">>)) :
        email \in {<<"nueva@mail">>, <<"ana@mail">>} }

RegistrationInputs == RegisterTenantInputs \cup ClientRegisterInputs \cup StaffCreateInputs

LoginInputs ==
    { AccountInput("clientLogin", host, Undefined, Undefined, Undefined, Undefined,
                   AccountBody(Undefined, email, password, Undefined)) :
        host \in {HostChavez, HostLocalAcme, HostLocalDefault, HostUnknown, HostNoSlug},
        email \in {<<"ana@mail">>, <<"eva@mail">>, <<"nadie@mail">>, Undefined},
        password \in {<<"ana-secret">>, <<"eva-secret">>} }

IdleAccountReq ==
    [pc |-> "idle", in |-> NoAccountInput, tenantId |-> Undefined, user |-> NoUser,
     resolvedTenant |-> NullTenant, status |-> 0, pending |-> 0, conn |-> "none",
     inTx |-> FALSE, writes |-> << >>,
     snapshot |-> [taken |-> FALSE, tenants |-> {}, staff |-> {}, clients |-> {}],
     rows |-> {}, token |-> Undefined]

InitAccounts ==
    /\ staff = StaffRows
    /\ insertId = [tenants |-> 3, staff |-> 4, clients |-> 4]
    /\ sreq = [s \in AccountReqs |-> IdleAccountReq]

\* Orders committed before the server starts: one of client 2 of chavez, one
\* of client 1 of acme, one of client 1 of chavez.
HistoryOrders ==
    << [id |-> 1, tenant_id |-> 1, client_id |-> 2, total_amount |-> 4],
       [id |-> 2, tenant_id |-> 2, client_id |-> 1, total_amount |-> 7],
       [id |-> 3, tenant_id |-> 1, client_id |-> 1, total_amount |-> 10] >>
HistoryOrderItems ==
    << [order_id |-> 1, product_id |-> 2, quantity |-> 1, unit_price |-> 4],
       [order_id |-> 2, product_id |-> 3, quantity |-> 1, unit_price |-> 7],
       [order_id |-> 3, product_id |-> 1, quantity |-> 1, unit_price |-> 10] >>

Init ==
    /\ tenants = TenantRows
    /\ products = InitProducts
    /\ orders = << >>
    /\ order_items = << >>
    /\ nextOrderId = 1
    /\ locks = [p \in ProductIds |-> NoHolder]
    /\ tx = [r \in Reqs |-> NoTx]
    /\ req = [r \in Reqs |-> IdleReq]
    /\ nedits = 0
    /\ clients = ClientRows
    /\ appointments = << >>
    /\ areq = [a \in ApptReqs |-> IdleApptReq]
    /\ InitAdmin
    /\ InitAccounts

(***************************************************************************)
(* Responses                                                               *)
(***************************************************************************)
\* res.status(status).json(...) on a path that holds no connection.
Respond(q, status) == [q EXCEPT !.pc = "done", !.status = status]

(***************************************************************************)
(* The middleware chain: resolveTenant, verifyClientToken, ensureTenantAccess *)
(***************************************************************************)
\* A request arrives.  resolveTenant and verifyClientToken are synchronous;
\* ensureTenantAccess runs up to its await of the tenant lookup.
Receive(r, input) ==
    /\ req[r].pc = "idle"
    /\ LET slug == ResolveTenant(input.hostname, input.xTenantSlug)
           v == VerifyClientToken(input.authorization)
           q == [req[r] EXCEPT !.in = input, !.tenantId = slug, !.user = v.user]
       IN  req' = [req EXCEPT ![r] =
                IF v.status # 0 THEN Respond(q, v.status)
                ELSE IF Falsy(slug) THEN Respond(q, 400)
                ELSE [q EXCEPT !.pc = "tenantLookup", !.dbAccess = TRUE]]
    /\ UNCHANGED <<tenants, products, orders, order_items, nextOrderId, locks, tx, nedits,
                   clients, appointments, areq, adminVars, accountVars>>

\* The tenant lookup of ensureTenantAccess returns.  On next() the route handler
\* runs up to its first await: POST / validates the body and asks the pool for a
\* connection, GET /my-orders issues its first query.
TenantLookupReturns(r) ==
    /\ req[r].pc = "tenantLookup"
    /\ \E hour \in HoursOfDay :
        LET tenantInfo == GetTenantInfoBySlug(req[r].tenantId)
            status == TenantAccessStatus(tenantInfo, req[r].user, req[r].tenantId, req[r].in.body)
            q == [req[r] EXCEPT !.resolvedTenant = tenantInfo]
            h == [q EXCEPT !.ran = TRUE]
            now == Today * HoursPerDay + hour
            invalid == ValidateOrderBody(req[r].in.body, now)
        IN  req' = [req EXCEPT ![r] =
                IF status # 0 THEN Respond(q, status)
                ELSE IF req[r].in.route = "myOrders" THEN [h EXCEPT !.pc = "ordersQuery"]
                ELSE IF invalid # 0 THEN Respond(h, invalid)
                ELSE [h EXCEPT !.pc = "getConnection"]]
    /\ UNCHANGED <<tenants, products, orders, order_items, nextOrderId, locks, tx, nedits,
                   clients, appointments, areq, adminVars, accountVars>>

(***************************************************************************)
(* POST /api/orders: the transaction                                       *)
(***************************************************************************)
\* pool.getConnection() resolves; beginTransaction is sent.
GetConnection(r) ==
    /\ req[r].pc = "getConnection"
    /\ req' = [req EXCEPT ![r].pc = "begin", ![r].conn = "held"]
    /\ UNCHANGED <<tenants, products, orders, order_items, nextOrderId, locks, tx, nedits,
                   clients, appointments, areq, adminVars, accountVars>>

\* beginTransaction resolves; totalAmount = 0, productPrices = {}, and the
\* locking read of the first item is sent.
BeginTransaction(r) ==
    /\ req[r].pc = "begin"
    /\ req' = [req EXCEPT ![r].pc = "check", ![r].i = 1,
                          ![r].totalAmount = 0, ![r].productPrices = NoPrices]
    /\ tx' = [tx EXCEPT ![r] = NoTx]
    /\ UNCHANGED <<tenants, products, orders, order_items, nextOrderId, locks, nedits,
                   clients, appointments, areq, adminVars, accountVars>>

\* Faulty variant: the read takes no row lock (FOR UPDATE left out).
CanLockAlways(r, p) == TRUE

\* Faulty variant: the read locks the whole table.
CanLockTable(r, p) == \A other \in ProductIds : locks[other] \in {NoHolder, r}

\* An exclusive row lock on products row p can be granted to r: the row is free
\* or r holds it already.  A missing row blocks nobody.
CanLock(r, p) == p \in ProductIds => locks[p] \in {NoHolder, r}

\* Faulty variant: the statement leaves no lock behind (a plain read).
LockedNothing(r, p) == locks

\* The lock table after r's statement on row p.
Locked(r, p) == IF p \in ProductIds THEN [locks EXCEPT ![p] = r] ELSE locks

\* The row of products as r's transaction reads it under its lock: the committed
\* row with r's own uncommitted decrements applied.
RowSeenBy(r, p) == [products[p] EXCEPT !.stock = @ - tx[r].delta[p]]

\* Faulty variant: the availability filter is left out of the locking read.
SelectProductForUpdateAnyAvailability(r, productId, tenantDbId) ==
    IF productId \in ProductIds /\ RowSeenBy(r, productId).tenant_id = tenantDbId
    THEN <<[price |-> RowSeenBy(r, productId).price, stock |-> RowSeenBy(r, productId).stock]>>
    ELSE << >>

\* Faulty variant: the tenant filter is left out of the locking read.
SelectProductForUpdateAnyTenant(r, productId, tenantDbId) ==
    IF productId \in ProductIds /\ RowSeenBy(r, productId).is_available
    THEN <<[price |-> RowSeenBy(r, productId).price, stock |-> RowSeenBy(r, productId).stock]>>
    ELSE << >>

\* SELECT price, stock FROM products WHERE id = ? AND tenant_id = ? AND is_available = TRUE FOR UPDATE
SelectProductForUpdate(r, productId, tenantDbId) ==
    IF /\ productId \in ProductIds
       /\ RowSeenBy(r, productId).tenant_id = tenantDbId
       /\ RowSeenBy(r, productId).is_available
    THEN <<[price |-> RowSeenBy(r, productId).price, stock |-> RowSeenBy(r, productId).stock]>>
    ELSE << >>

Items(r) == req[r].in.body.items

\* The locking read of item i returns (orderRoutes.ts 293-305).  A throw goes to
\* the catch block, which sends the rollback.
CheckItem(r) ==
    /\ req[r].pc = "check"
    /\ LET item == Items(r)[req[r].i]
           rows == SelectProductForUpdate(r, item.productId, req[r].resolvedTenant.id)
       IN  /\ CanLock(r, item.productId)
           /\ locks' = Locked(r, item.productId)
           /\ req' = [req EXCEPT ![r] =
                IF rows = << >> THEN [@ EXCEPT !.pc = "rollback", !.err = "unavailable"]
                ELSE IF rows[1].stock < item.quantity
                     THEN [@ EXCEPT !.pc = "rollback", !.err = "insufficient"]
                ELSE [@ EXCEPT !.productPrices[item.productId] = rows[1].price,
                               !.totalAmount = @ + rows[1].price * item.quantity,
                               !.i = IF req[r].i < Len(Items(r)) THEN req[r].i + 1 ELSE 1,
                               !.pc = IF req[r].i < Len(Items(r)) THEN "check" ELSE "insertOrder"]]
    /\ UNCHANGED <<tenants, products, orders, order_items, nextOrderId, tx, nedits,
                   clients, appointments, areq, adminVars, accountVars>>

\* r waits for a row lock that another request holds.
WaitsFor(r, other) ==
    /\ req[r].pc = "check"
    /\ Items(r)[req[r].i].productId \in ProductIds
    /\ locks[Items(r)[req[r].i].productId] = other
    /\ other # r

\* Faulty variant: the database does not look for cycles of lock waits.
DeadlockUndetected(r) ==
    /\ FALSE
    /\ UNCHANGED vars

\* The database finds a cycle of lock waits and fails r's statement; the throw
\* goes to the catch block.
DeadlockVictim(r) ==
    /\ \E other \in Reqs : WaitsFor(r, other) /\ WaitsFor(other, r)
    /\ req' = [req EXCEPT ![r].pc = "rollback", ![r].err = "deadlock"]
    /\ UNCHANGED <<tenants, products, orders, order_items, nextOrderId, locks, tx, nedits,
                   clients, appointments, areq, adminVars, accountVars>>

\* The row INSERT INTO orders writes (orderRoutes.ts 311-315).
OrderRow(orderId, tenantDbId, clientId, totalAmount) ==
    [id |-> orderId, tenant_id |-> tenantDbId, client_id |-> clientId,
     total_amount |-> totalAmount]

\* Faulty variant: the order is written for the client the body names.
InsertOrderForBodyClient(r) ==
    /\ req[r].pc = "insertOrder"
    /\ tx' = [tx EXCEPT ![r].orders = Append(@,
                OrderRow(nextOrderId, req[r].resolvedTenant.id, req[r].in.body.clientId,
                         req[r].totalAmount))]
    /\ nextOrderId' = nextOrderId + 1
    /\ req' = [req EXCEPT ![r].orderId = nextOrderId, ![r].pc = "insertItem", ![r].i = 1]
    /\ UNCHANGED <<tenants, products, orders, order_items, locks, nedits,
                   clients, appointments, areq, adminVars, accountVars>>

\* INSERT INTO orders returns with its insertId; the insert of the first item is sent.
InsertOrder(r) ==
    /\ req[r].pc = "insertOrder"
    /\ tx' = [tx EXCEPT ![r].orders = Append(@,
                OrderRow(nextOrderId, req[r].resolvedTenant.id, req[r].user.id,
                         req[r].totalAmount))]
    /\ nextOrderId' = nextOrderId + 1
    /\ req' = [req EXCEPT ![r].orderId = nextOrderId, ![r].pc = "insertItem", ![r].i = 1]
    /\ UNCHANGED <<tenants, products, orders, order_items, locks, nedits,
                   clients, appointments, areq, adminVars, accountVars>>

\* Faulty variant: the unit price is the price the client sent with the line.
OrderItemRowClientPrice(orderId, item, productPrices) ==
    [order_id |-> orderId, product_id |-> item.productId, quantity |-> item.quantity,
     unit_price |-> item.price]

\* The row INSERT INTO order_items writes (orderRoutes.ts 320-323).
OrderItemRow(orderId, item, productPrices) ==
    [order_id |-> orderId, product_id |-> item.productId, quantity |-> item.quantity,
     unit_price |-> productPrices[item.productId]]

\* INSERT INTO order_items of item i returns; its stock UPDATE is sent.
InsertItem(r) ==
    /\ req[r].pc = "insertItem"
    /\ tx' = [tx EXCEPT ![r].items = Append(@,
                OrderItemRow(req[r].orderId, Items(r)[req[r].i], req[r].productPrices))]
    /\ req' = [req EXCEPT ![r].pc = "updateStock"]
    /\ UNCHANGED <<tenants, products, orders, order_items, nextOrderId, locks, nedits,
                   clients, appointments, areq, adminVars, accountVars>>

\* UPDATE products SET stock = stock - ? WHERE id = ? of item i returns; the next
\* insert, or the commit, is sent.
UpdateStock(r) ==
    /\ req[r].pc = "updateStock"
    /\ LET item == Items(r)[req[r].i]
       IN  /\ CanLock(r, item.productId)
           /\ locks' = Locked(r, item.productId)
           /\ tx' = [tx EXCEPT ![r].delta =
                        IF item.productId \in ProductIds
                        THEN [@ EXCEPT ![item.productId] = @ + item.quantity] ELSE @]
           /\ req' = [req EXCEPT
                        ![r].i = IF req[r].i < Len(Items(r)) THEN req[r].i + 1 ELSE req[r].i,
                        ![r].pc = IF req[r].i < Len(Items(r)) THEN "insertItem" ELSE "commit"]
    /\ UNCHANGED <<tenants, products, orders, order_items, nextOrderId, nedits,
                   clients, appointments, areq, adminVars, accountVars>>

\* The lock table once r's transaction has ended.
Released(r) == [p \in ProductIds |-> IF locks[p] = r THEN NoHolder ELSE locks[p]]

\* connection.commit() resolves: r's writes become the committed rows and its locks
\* are released; then 201 with the total, and finally connection.release().
Commit(r) ==
    /\ req[r].pc = "commit"
    /\ products' = [p \in ProductIds |-> [products[p] EXCEPT !.stock = @ - tx[r].delta[p]]]
    /\ orders' = orders \o tx[r].orders
    /\ order_items' = order_items \o tx[r].items
    /\ locks' = Released(r)
    /\ tx' = [tx EXCEPT ![r] = NoTx]
    /\ req' = [req EXCEPT ![r].pc = "done", ![r].status = 201,
                          ![r].total = req[r].totalAmount, ![r].conn = "released"]
    /\ UNCHANGED <<tenants, nextOrderId, nedits, clients, appointments, areq, adminVars, accountVars>>

\* An awaited statement of the transaction is rejected by the database (a lost
\* connection, a constraint, a timeout); the throw goes to the catch block.
StatementFails(r) ==
    /\ req[r].pc \in {"begin", "check", "insertOrder", "insertItem", "updateStock", "commit"}
    /\ req' = [req EXCEPT ![r].pc = "rollback", ![r].err = "database"]
    /\ UNCHANGED <<tenants, products, orders, order_items, nextOrderId, locks, tx, nedits,
                   clients, appointments, areq, adminVars, accountVars>>

\* Faulty variant: the catch block sends no rollback, and the writes made so
\* far stay in the tables.
RollbackMissing(r) ==
    /\ req[r].pc = "rollback"
    /\ products' = [p \in ProductIds |-> [products[p] EXCEPT !.stock = @ - tx[r].delta[p]]]
    /\ orders' = orders \o tx[r].orders
    /\ order_items' = order_items \o tx[r].items
    /\ locks' = Released(r)
    /\ tx' = [tx EXCEPT ![r] = NoTx]
    /\ req' = [req EXCEPT ![r].pc = "done", ![r].status = 500, ![r].conn = "released"]
    /\ UNCHANGED <<tenants, nextOrderId, nedits, clients, appointments, areq, adminVars, accountVars>>

\* Faulty variant: the handler has no finally block, so that the failure path
\* answers without connection.release().
RollbackWithoutRelease(r) ==
    /\ req[r].pc = "rollback"
    /\ locks' = Released(r)
    /\ tx' = [tx EXCEPT ![r] = NoTx]
    /\ req' = [req EXCEPT ![r].pc = "done", ![r].status = 500]
    /\ UNCHANGED <<tenants, products, orders, order_items, nextOrderId, nedits,
                   clients, appointments, areq, adminVars, accountVars>>

\* connection.rollback() resolves in the catch block: r's writes are dropped and
\* its locks released; then 500 with the error message, and finally connection.release().
Rollback(r) ==
    /\ req[r].pc = "rollback"
    /\ locks' = Released(r)
    /\ tx' = [tx EXCEPT ![r] = NoTx]
    /\ req' = [req EXCEPT ![r].pc = "done", ![r].status = 500, ![r].conn = "released"]
    /\ UNCHANGED <<tenants, products, orders, order_items, nextOrderId, nedits,
                   clients, appointments, areq, adminVars, accountVars>>

(***************************************************************************)
(* GET /api/orders/my-orders                                               *)
(***************************************************************************)
RECURSIVE SortByIdDesc(_)
SortByIdDesc(rows) ==
    IF rows = << >> THEN << >>
    ELSE LET k == CHOOSE k \in 1..Len(rows) : \A j \in 1..Len(rows) : rows[j].id <= rows[k].id
         IN  <<rows[k]>> \o SortByIdDesc(SubSeq(rows, 1, k - 1) \o SubSeq(rows, k + 1, Len(rows)))

\* SELECT id, total_amount, ... FROM orders WHERE client_id = ? AND tenant_id = ?
\* ORDER BY created_at DESC (ids grow with created_at).
SelectOrders(clientId, tenantDbId) ==
    LET Mine(o) == o.client_id = clientId /\ o.tenant_id = tenantDbId
    IN  SortByIdDesc(SelectSeq(orders, Mine))

\* SELECT oi.order_id, oi.product_id, oi.quantity, oi.unit_price, ... FROM order_items oi
\* JOIN products p ON oi.product_id = p.id WHERE oi.order_id IN (?)
SelectOrderItems(orderIds) ==
    LET Joined(oi) == oi.order_id \in orderIds /\ oi.product_id \in ProductIds
    IN  SelectSeq(order_items, Joined)

\* Faulty variant: the item reports the live price of its product.
MyOrdersItemLivePrice(item) ==
    [product_id |-> item.product_id, quantity |-> item.quantity,
     unit_price |-> products[item.product_id].price]

\* One item of the response (orderRoutes.ts 390-396).
MyOrdersItem(item) ==
    [product_id |-> item.product_id, quantity |-> item.quantity,
     unit_price |-> item.unit_price]

\* One order of the response, with the items whose order_id is its id (387-405).
MyOrdersOrder(order, items) ==
    LET Own(item) == item.order_id = order.id
        own == SelectSeq(items, Own)
    IN  [id |-> order.id, total_amount |-> order.total_amount,
         items |-> [k \in 1..Len(own) |-> MyOrdersItem(own[k])]]

\* The first query returns: 200 with no orders, or the second query is sent.
OrdersQuery(r) ==
    /\ req[r].pc = "ordersQuery"
    /\ LET rows == SelectOrders(req[r].user.id, req[r].resolvedTenant.id)
       IN  req' = [req EXCEPT ![r] =
                IF rows = << >> THEN Respond(@, 200)
                ELSE [@ EXCEPT !.pc = "itemsQuery", !.rows = rows]]
    /\ UNCHANGED <<tenants, products, orders, order_items, nextOrderId, locks, tx, nedits,
                   clients, appointments, areq, adminVars, accountVars>>

\* The ids that `oi.order_id IN (?)` matches when its one placeholder is bound
\* to the array orderIds by pool.execute, a prepared statement.  The driver
\* binds one value per placeholder: every id where it expands the array (what
\* the comment in the source expects), the first id where it binds the array
\* as the string '5,3', no id where it binds it as a JSON document.
InListBindings(orderIds) ==
    { {orderIds[k] : k \in 1..Len(orderIds)}, {orderIds[1]}, {} }

\* The second query returns: 200 with every order and the items that came
\* back for it.
ItemsQuery(r) ==
    /\ req[r].pc = "itemsQuery"
    /\ \E matched \in InListBindings([k \in 1..Len(req[r].rows) |-> req[r].rows[k].id]) :
        LET rows == req[r].rows
            items == SelectOrderItems(matched)
        IN  req' = [req EXCEPT ![r] =
                [Respond(@, 200) EXCEPT
                    !.result = [k \in 1..Len(rows) |-> MyOrdersOrder(rows[k], items)]]]
    /\ UNCHANGED <<tenants, products, orders, order_items, nextOrderId, locks, tx, nedits,
                   clients, appointments, areq, adminVars, accountVars>>

(***************************************************************************)
(* Catalog statements of an administrator (productAdminRoutes.ts)          *)
(***************************************************************************)
CatalogProducts == {1, 2}
CatalogPrices == {15}
CatalogStocks == {1, MaxStock}
TenantIds == {1, 2}

\* PUT /api/products/:productId, past its guards, for the resolved tenant:
\* UPDATE products SET ..., price = ?, stock = ? WHERE id = ? AND tenant_id = ?
\* and the commit.  The statement waits for the row lock.
UpdateProduct(tenantDbId, productId, price, stock) ==
    /\ nedits < MaxCatalogEdits
    /\ locks[productId] = NoHolder
    /\ products[productId].tenant_id = tenantDbId
    /\ products' = [products EXCEPT ![productId].price = price, ![productId].stock = stock]
    /\ nedits' = nedits + 1
    /\ UNCHANGED <<tenants, orders, order_items, nextOrderId, locks, tx, req,
                   clients, appointments, areq, adminVars, accountVars>>

\* PUT /api/products/:productId/activate and /deactivate, past their guards:
\* UPDATE products SET is_available = ? WHERE id = ? AND tenant_id = ?
SetAvailable(tenantDbId, productId, available) ==
    /\ nedits < MaxCatalogEdits
    /\ locks[productId] = NoHolder
    /\ products[productId].tenant_id = tenantDbId
    /\ products[productId].is_available # available
    /\ products' = [products EXCEPT ![productId].is_available = available]
    /\ nedits' = nedits + 1
    /\ UNCHANGED <<tenants, orders, order_items, nextOrderId, locks, tx, req,
                   clients, appointments, areq, adminVars, accountVars>>

(***************************************************************************)
(* /api/products of an administrator: the handlers                         *)
(***************************************************************************)
MaxCatalogRequests == 2

RespondCatalog(q, status) == [q EXCEPT !.pc = "done", !.status = status]

NewProductId == CHOOSE n \in 1..(Cardinality(DOMAIN products) + UnknownProductId + 1) :
                    /\ n \notin DOMAIN products
                    /\ \A p \in DOMAIN products : p < n

\* The statement of a catalog handler waits for the row lock of an order
\* transaction on the same product.
RowFree(productId) == productId \in DOMAIN locks => locks[productId] = NoHolder

\* A request to a product route arrives.  resolveTenant and verifyToken are
\* synchronous; ensureTenantAccess runs up to its await of the tenant lookup.
ReceiveCatalog(input) ==
    /\ creq.pc \in {"idle", "done"}
    /\ creq.served < MaxCatalogRequests
    /\ LET slug == ResolveTenant(input.hostname, input.xTenantSlug)
           v == VerifyTokenAdmin(input.authorization)
           q == [IdleCatalogReq EXCEPT !.in = input, !.tenantId = slug, !.user = v.user,
                                       !.served = creq.served + 1]
       IN  creq' = IF v.status # 0 THEN RespondCatalog(q, v.status)
                   ELSE IF Falsy(slug) THEN RespondCatalog(q, 400)
                   ELSE [q EXCEPT !.pc = "tenantLookup"]
    /\ UNCHANGED <<tenants, products, orders, order_items, nextOrderId, locks, tx, req, nedits,
                   clients, appointments, areq, images, product_images, nextImageId, accountVars>>

\* if (!name || !price || !stock || !category_id): a required field is missing.
MissingProductFields(body) ==
    Falsy(body.name) \/ body.price = 0 \/ body.stock = 0 \/ body.category_id = 0

\* The tenant lookup of ensureTenantAccess returns.  On next() the handler runs
\* up to its first await: POST / and PUT /:productId check the fields and ask
\* the pool for a connection, activate and deactivate send their statement.
CatalogTenantLookupReturns ==
    /\ creq.pc = "tenantLookup"
    /\ LET tenantInfo == GetTenantInfoBySlug(creq.tenantId)
           status == TenantAccessStatus(tenantInfo, creq.user, creq.tenantId, creq.in.body)
           q == [creq EXCEPT !.resolvedTenant = tenantInfo]
           in == creq.in
       IN  creq' =
             IF status # 0 THEN RespondCatalog(q, status)
             ELSE IF in.op \in {"activate", "deactivate"} THEN [q EXCEPT !.pc = "setAvailable"]
             ELSE IF MissingProductFields(in.body) \/ (in.op = "create" /\ ~in.file)
                  THEN RespondCatalog(q, 400)
             ELSE [q EXCEPT !.pc = "getConnection"]
    /\ UNCHANGED <<tenants, products, orders, order_items, nextOrderId, locks, tx, req, nedits,
                   clients, appointments, areq, images, product_images, nextImageId, accountVars>>

\* pool.getConnection() and beginTransaction resolve; the first statement of
\* the transaction is sent.
CatalogBeginTransaction ==
    /\ creq.pc = "getConnection"
    /\ creq' = [creq EXCEPT !.pc = IF creq.in.op = "create" THEN "insertProduct"
                                   ELSE "updateProduct",
                            !.before = [products |-> products, images |-> images,
                                        product_images |-> product_images]]
    /\ UNCHANGED <<tenants, products, orders, order_items, nextOrderId, locks, tx, req, nedits,
                   clients, appointments, areq, images, product_images, nextImageId, accountVars>>

\* POST /: INSERT INTO products (tenant_id, ...) VALUES (tenantDbId, ..., TRUE).
CatalogInsertProduct ==
    /\ creq.pc = "insertProduct"
    /\ products' = products @@
            (NewProductId :> [tenant_id |-> creq.resolvedTenant.id, price |-> creq.in.body.price,
                              stock |-> creq.in.body.stock, is_available |-> TRUE])
    /\ creq' = [creq EXCEPT !.pc = "insertImage", !.productId = NewProductId]
    /\ UNCHANGED <<tenants, orders, order_items, nextOrderId, locks, tx, req, nedits,
                   clients, appointments, areq, images, product_images, nextImageId, accountVars>>

\* PUT /:productId: UPDATE products SET ... WHERE id = ? AND tenant_id = ?.
\* The number of rows it changed is not read.
CatalogUpdateProduct ==
    /\ creq.pc = "updateProduct"
    /\ RowFree(creq.in.productId)
    /\ LET p == creq.in.productId
       IN  products' =
             IF p \in DOMAIN products /\ products[p].tenant_id = creq.resolvedTenant.id
             THEN [products EXCEPT ![p].price = creq.in.body.price,
                                   ![p].stock = creq.in.body.stock]
             ELSE products
    /\ creq' = [creq EXCEPT !.pc = IF creq.in.file THEN "selectImage" ELSE "commit",
                            !.productId = creq.in.productId]
    /\ UNCHANGED <<tenants, orders, order_items, nextOrderId, locks, tx, req, nedits,
                   clients, appointments, areq, images, product_images, nextImageId, accountVars>>

\* SELECT i.id, i.storage_key FROM images i JOIN product_images pi
\*   ON i.id = pi.image_id WHERE pi.product_id = ? AND pi.is_primary = TRUE
PrimaryImagesOf(productId) ==
    { i \in images : \E pi \in product_images :
                        pi.product_id = productId /\ pi.image_id = i.id }

CatalogSelectImage ==
    /\ creq.pc = "selectImage"
    /\ creq' = [creq EXCEPT !.pc = "insertImage",
                            !.currentImageRows = PrimaryImagesOf(creq.productId)]
    /\ UNCHANGED <<tenants, products, orders, order_items, nextOrderId, locks, tx, req, nedits,
                   clients, appointments, areq, images, product_images, nextImageId, accountVars>>

\* INSERT INTO images (tenant_id, ...) VALUES (tenantDbId, ...); the link of a
\* product that had an image is updated, another product gets a new link.
CatalogInsertImage ==
    /\ creq.pc = "insertImage"
    /\ images' = images \cup {[id |-> nextImageId, tenant_id |-> creq.resolvedTenant.id]}
    /\ nextImageId' = nextImageId + 1
    /\ creq' = [creq EXCEPT !.newImageId = nextImageId,
                            !.pc = IF creq.currentImageRows # {} THEN "relinkImage"
                                   ELSE "linkImage"]
    /\ UNCHANGED <<tenants, products, orders, order_items, nextOrderId, locks, tx, req, nedits,
                   clients, appointments, areq, product_images, accountVars>>

\* INSERT INTO product_images (product_id, image_id, is_primary) VALUES (?, ?, TRUE)
CatalogLinkImage ==
    /\ creq.pc = "linkImage"
    /\ product_images' = product_images
            \cup {[product_id |-> creq.productId, image_id |-> creq.newImageId]}
    /\ creq' = [creq EXCEPT !.pc = "commit"]
    /\ UNCHANGED <<tenants, products, orders, order_items, nextOrderId, locks, tx, req, nedits,
                   clients, appointments, areq, images, nextImageId, accountVars>>

\* The schema is not part of the repository.  Where product_images.product_id
\* is a foreign key, the link of a product id that has no row is refused: the
\* catch block rolls the transaction back and answers 500.  The rows go back to
\* those at beginTransaction (no other request writes them meanwhile); the
\* AUTO_INCREMENT counter of images does not.
CatalogForeignKeyFails ==
    /\ creq.pc = "linkImage"
    /\ creq.productId \notin DOMAIN products
    /\ products' = creq.before.products
    /\ images' = creq.before.images
    /\ product_images' = creq.before.product_images
    /\ creq' = RespondCatalog(creq, 500)
    /\ UNCHANGED <<tenants, orders, order_items, nextOrderId, locks, tx, req, nedits,
                   clients, appointments, areq, nextImageId, accountVars>>

\* const oldImage = currentImageRows[0]
OldImage(q) == CHOOSE i \in q.currentImageRows : \A j \in q.currentImageRows : i.id <= j.id

\* UPDATE product_images SET image_id = ? WHERE product_id = ? AND image_id = ?
CatalogRelinkImage ==
    /\ creq.pc = "relinkImage"
    /\ product_images' =
          { IF pi.product_id = creq.productId /\ pi.image_id = OldImage(creq).id
            THEN [pi EXCEPT !.image_id = creq.newImageId] ELSE pi : pi \in product_images }
    /\ creq' = [creq EXCEPT !.pc = "deleteOldImage"]
    /\ UNCHANGED <<tenants, products, orders, order_items, nextOrderId, locks, tx, req, nedits,
                   clients, appointments, areq, images, nextImageId, accountVars>>

\* DELETE FROM images WHERE id = ?
CatalogDeleteOldImage ==
    /\ creq.pc = "deleteOldImage"
    /\ images' = { i \in images : i.id # OldImage(creq).id }
    /\ creq' = [creq EXCEPT !.pc = "commit"]
    /\ UNCHANGED <<tenants, products, orders, order_items, nextOrderId, locks, tx, req, nedits,
                   clients, appointments, areq, product_images, nextImageId, accountVars>>

\* connection.commit() resolves: 201 for POST /, 200 for PUT /:productId.
CatalogCommit ==
    /\ creq.pc = "commit"
    /\ creq' = RespondCatalog(creq, IF creq.in.op = "create" THEN 201 ELSE 200)
    /\ UNCHANGED <<tenants, products, orders, order_items, nextOrderId, locks, tx, req, nedits,
                   clients, appointments, areq, images, product_images, nextImageId, accountVars>>

\* PUT /:productId/activate and /deactivate:
\* UPDATE products SET is_available = ? WHERE id = ? AND tenant_id = ?,
\* answered 404 when no row matched.
CatalogSetAvailable ==
    /\ creq.pc = "setAvailable"
    /\ RowFree(creq.in.productId)
    /\ LET p == creq.in.productId
           matched == p \in DOMAIN products /\ products[p].tenant_id = creq.resolvedTenant.id
       IN  /\ products' = IF matched
                          THEN [products EXCEPT ![p].is_available = (creq.in.op = "activate")]
                          ELSE products
           /\ creq' = RespondCatalog(creq, IF matched THEN 200 ELSE 404)
    /\ UNCHANGED <<tenants, orders, order_items, nextOrderId, locks, tx, req, nedits,
                   clients, appointments, areq, images, product_images, nextImageId, accountVars>>

NextCatalog ==
    \/ \E input \in CatalogInputs : ReceiveCatalog(input)
    \/ CatalogTenantLookupReturns
    \/ CatalogBeginTransaction
    \/ CatalogInsertProduct
    \/ CatalogUpdateProduct
    \/ CatalogSelectImage
    \/ CatalogInsertImage
    \/ CatalogLinkImage
    \/ CatalogForeignKeyFails
    \/ CatalogRelinkImage
    \/ CatalogDeleteOldImage
    \/ CatalogCommit
    \/ CatalogSetAvailable

\* Requests to the product routes of an administrator, one after the other.
SpecCatalog == Init /\ [][NextCatalog]_vars

(***************************************************************************)
(* Staff, tenant registration, client registration and login: the handlers *)
(***************************************************************************)
\* verifyToken of the staff routes of clientAuthRoutes.ts: "slug:role" with one
\* of the four roles; a client is answered 403.
StaffVerifyToken(authorization) ==
    LET token == BearerToken(authorization)
        parts == Split(token, ":")
        tenant_slug == At(parts, 1)
        role == At(parts, 2)
        user == [id |-> MockUserId, tenant_id |-> tenant_slug, role |-> role[1]]
    IN  IF Falsy(token) THEN [status |-> 401, user |-> NoUser]
        ELSE IF Falsy(tenant_slug) \/ role \notin (StaffRoles \cup {<<"client">>})
             THEN [status |-> 401, user |-> NoUser]
        ELSE IF role = <<"client">> THEN [status |-> 403, user |-> user]
        ELSE [status |-> 0, user |-> user]

\* verifyToken of the staff routes of part_004: whatever the token says, the
\* user is the administrator of chavez; only a missing token is answered 401.
PathVerifyToken(authorization) ==
    LET token == BearerToken(authorization)
        user == [id |-> MockUserId, tenant_id |-> <<"chavez">>, role |-> "admin"]
    IN  IF Falsy(token) \/ user.role = "client" THEN [status |-> 401, user |-> user]
        ELSE [status |-> 0, user |-> user]

\* isAllowedToManageStaff
IsAllowedToManageStaff(user) == IF user.role # "admin" THEN 403 ELSE 0

\* getTenantInfoById: SELECT id, tenant_id FROM tenants WHERE id = ?
GetTenantInfoById(tenantNumericId) ==
    IF \E t \in tenants : t.id = ParseInt(tenantNumericId)
    THEN LET t == CHOOSE t \in tenants : t.id = ParseInt(tenantNumericId)
         IN  [id |-> t.id, slug |-> t.tenant_id]
    ELSE NullTenant

\* `${client.id}`: the decimal digits of the number.
DecimalString(n) == <<CHOOSE a \in DigitAtoms : DigitVal(a) = n>>

\* Faulty variant: the token names the slug and the role only.
ClientLoginTokenNoId(tenantSlug, client) == tenantSlug \o <<":", "client">>

\* const token = `${tenantSlug}:client:${client.id}`
ClientLoginToken(tenantSlug, client) ==
    tenantSlug \o <<":", "client", ":">> \o DecimalString(client.id)

\* The body of POST / of the staff routes lacks a field or names no staff role.
StaffBodyStatus(body, needsAccount) ==
    IF Falsy(body.name) \/ Falsy(body.role) THEN 400
    ELSE IF needsAccount /\ (Falsy(body.email) \/ Falsy(body.password)) THEN 400
    ELSE IF body.role \notin StaffRoles THEN 400
    ELSE 0

RespondAccount(q, status) ==
    [q EXCEPT !.pc = "done", !.status = status,
              !.conn = IF q.conn = "held" THEN "released" ELSE q.conn]

\* The synchronous code from the arrival of the request to its first await.
AccountEntry(input) ==
    LET slug == ResolveTenant(input.hostname, input.xTenantSlug)
        q == [IdleAccountReq EXCEPT !.in = input, !.tenantId = slug]
        body == input.body
    IN  CASE input.route \in GuardedStaffRoutes ->
                LET v == StaffVerifyToken(input.authorization)
                    u == [q EXCEPT !.user = v.user]
                IN  IF v.status # 0 THEN RespondAccount(u, v.status)
                    ELSE IF Falsy(slug) THEN RespondAccount(u, 400)
                    ELSE [u EXCEPT !.pc = "tenantLookup"]
          [] input.route \in PathStaffRoutes ->
                LET v == PathVerifyToken(input.authorization)
                    u == [q EXCEPT !.user = v.user]
                    allowed == IsAllowedToManageStaff(v.user)
                    invalid == IF Falsy(input.tenantIdParam) THEN 400
                               ELSE StaffBodyStatus(body, TRUE)
                IN  IF v.status # 0 THEN RespondAccount(u, v.status)
                    ELSE IF allowed # 0 THEN RespondAccount(u, allowed)
                    ELSE IF input.route = "staffDeleteByPath" THEN [u EXCEPT !.pc = "deleteStaff"]
                    ELSE IF invalid # 0 THEN RespondAccount(u, invalid)
                    ELSE [u EXCEPT !.pc = "getConnection"]
          [] input.route = "registerTenant" ->
                IF input.externalToken # ExpectedToken THEN RespondAccount(q, 401)
                ELSE IF Falsy(body.tenant_id) \/ Falsy(body.name) \/ Falsy(body.email)
                        \/ Falsy(body.password)
                     THEN RespondAccount(q, 400)
                ELSE [q EXCEPT !.pc = "getConnection"]
          [] input.route = "clientRegister" ->
                IF Falsy(body.name) \/ Falsy(body.email) \/ Falsy(body.password)
                THEN RespondAccount(q, 400)
                ELSE IF Falsy(slug) THEN RespondAccount(q, 400)
                ELSE [q EXCEPT !.pc = "getConnection"]
          [] OTHER ->
                IF Falsy(body.email) \/ Falsy(body.password) THEN RespondAccount(q, 400)
                ELSE IF Falsy(slug) THEN RespondAccount(q, 400)
                ELSE [q EXCEPT !.pc = "tenantLookup"]

ReceiveAccount(s, input) ==
    /\ sreq[s].pc = "idle"
    /\ sreq' = [sreq EXCEPT ![s] = AccountEntry(input)]
    /\ UNCHANGED <<tenants, products, orders, order_items, nextOrderId, locks, tx, req, nedits,
                   clients, appointments, areq, adminVars, staff, insertId>>

\* The tenant lookup by slug returns: that of ensureTenantAccess, followed by
\* isAllowedToManageStaff and the handler up to its first await, or that of
\* getTenantNumericId of the client routes.
AccountTenantLookupReturns(s) ==
    /\ sreq[s].pc = "tenantLookup"
    /\ LET q == sreq[s]
           tenantInfo == GetTenantInfoBySlug(q.tenantId)
           u == [q EXCEPT !.resolvedTenant = tenantInfo]
           access == TenantAccessStatus(tenantInfo, q.user, q.tenantId, q.in.body)
           allowed == IsAllowedToManageStaff(q.user)
           invalid == StaffBodyStatus(q.in.body, q.in.route = "staffCreate")
       IN  sreq' = [sreq EXCEPT ![s] =
             IF tenantInfo = NullTenant THEN RespondAccount(u, 404)
             ELSE IF q.in.route = "clientLogin" THEN [u EXCEPT !.pc = "selectClient"]
             ELSE IF q.in.route = "clientRegister" THEN [u EXCEPT !.pc = "begin"]
             ELSE IF access # 0 THEN RespondAccount(u, access)
             ELSE IF allowed # 0 THEN RespondAccount(u, allowed)
             ELSE IF q.in.route = "staffDelete" THEN [u EXCEPT !.pc = "deleteStaff"]
             ELSE IF invalid # 0 THEN RespondAccount(u, invalid)
             ELSE IF q.in.route = "staffUpdate" THEN [u EXCEPT !.pc = "updateStaff"]
             ELSE [u EXCEPT !.pc = "getConnection"]]
    /\ UNCHANGED <<tenants, products, orders, order_items, nextOrderId, locks, tx, req, nedits,
                   clients, appointments, areq, adminVars, staff, insertId>>

\* pool.getConnection() resolves.  /register of the client routes looks its
\* tenant up next, the other handlers begin their transaction.
AccountGetConnection(s) ==
    /\ sreq[s].pc = "getConnection"
    /\ sreq' = [sreq EXCEPT ![s].conn = "held",
                            ![s].pc = IF sreq[s].in.route = "clientRegister" THEN "tenantLookup"
                                      ELSE "begin"]
    /\ UNCHANGED <<tenants, products, orders, order_items, nextOrderId, locks, tx, req, nedits,
                   clients, appointments, areq, adminVars, staff, insertId>>

\* beginTransaction resolves; the first statement is sent.
AccountBeginTransaction(s) ==
    /\ sreq[s].pc = "begin"
    /\ sreq' = [sreq EXCEPT ![s].inTx = TRUE,
                            ![s].pc = CASE sreq[s].in.route = "staffCreateByPath" -> "tenantById"
                                        [] sreq[s].in.route = "registerTenant" -> "selectTenant"
                                        [] OTHER -> "selectEmail1"]
    /\ UNCHANGED <<tenants, products, orders, order_items, nextOrderId, locks, tx, req, nedits,
                   clients, appointments, areq, adminVars, staff, insertId>>

\* getTenantInfoById(req.params.tenantId) returns.
AccountTenantByIdReturns(s) ==
    /\ sreq[s].pc = "tenantById"
    /\ LET tenantInfo == GetTenantInfoById(sreq[s].in.tenantIdParam)
       IN  sreq' = [sreq EXCEPT ![s] =
             IF tenantInfo = NullTenant THEN [@ EXCEPT !.pc = "rollback", !.pending = 404]
             ELSE [@ EXCEPT !.pc = "selectEmail1", !.resolvedTenant = tenantInfo]]
    /\ UNCHANGED <<tenants, products, orders, order_items, nextOrderId, locks, tx, req, nedits,
                   clients, appointments, areq, adminVars, staff, insertId>>

\* The first plain SELECT of a transaction fixes what its later ones see
\* (REPEATABLE READ, the default of InnoDB): the committed rows of that moment.
Snapshot == [taken |-> TRUE, tenants |-> {t.tenant_id : t \in tenants},
             staff |-> {r.email : r \in staff}, clients |-> {c.email : c \in clients}]
SnapshotOf(q) == IF q.snapshot.taken THEN q.snapshot ELSE Snapshot

\* SELECT id FROM tenants WHERE tenant_id = ? returns: 409 after a rollback
\* when the slug has a row.
AccountSelectTenant(s) ==
    /\ sreq[s].pc = "selectTenant"
    /\ LET snap == SnapshotOf(sreq[s])
       IN  sreq' = [sreq EXCEPT ![s] =
             IF sreq[s].in.body.tenant_id \in snap.tenants
             THEN [@ EXCEPT !.pc = "rollback", !.pending = 409, !.snapshot = snap]
             ELSE [@ EXCEPT !.pc = "selectEmail1", !.snapshot = snap]]
    /\ UNCHANGED <<tenants, products, orders, order_items, nextOrderId, locks, tx, req, nedits,
                   clients, appointments, areq, adminVars, staff, insertId>>

\* SELECT id FROM staff WHERE email = ? and SELECT id FROM clients WHERE
\* email = ? return, one after the other: 409 after a rollback when either
\* found a row.
AccountSelectEmail(s) ==
    /\ sreq[s].pc \in {"selectEmail1", "selectEmail2"}
    /\ LET snap == SnapshotOf(sreq[s])
           email == sreq[s].in.body.email
       IN  sreq' = [sreq EXCEPT ![s] =
             IF @.pc = "selectEmail1" THEN [@ EXCEPT !.pc = "selectEmail2", !.snapshot = snap]
             ELSE IF email \in snap.staff \cup snap.clients
                  THEN [@ EXCEPT !.pc = "rollback", !.pending = 409]
             ELSE [@ EXCEPT !.pc = "hash"]]
    /\ UNCHANGED <<tenants, products, orders, order_items, nextOrderId, locks, tx, req, nedits,
                   clients, appointments, areq, adminVars, staff, insertId>>

\* bcrypt.hash resolves; the INSERT is sent.
AccountHash(s) ==
    /\ sreq[s].pc = "hash"
    /\ sreq' = [sreq EXCEPT ![s].pc = CASE sreq[s].in.route = "registerTenant" -> "insertTenant"
                                        [] sreq[s].in.route = "clientRegister" -> "insertClient"
                                        [] OTHER -> "insertStaff"]
    /\ UNCHANGED <<tenants, products, orders, order_items, nextOrderId, locks, tx, req, nedits,
                   clients, appointments, areq, adminVars, staff, insertId>>

Write(table, row) == [table |-> table, row |-> row]

\* INSERT INTO tenants (tenant_id, ...) VALUES (?, ...); tenantId = insertId.
AccountInsertTenant(s) ==
    /\ sreq[s].pc = "insertTenant"
    /\ LET row == [id |-> insertId.tenants, tenant_id |-> sreq[s].in.body.tenant_id]
       IN  sreq' = [sreq EXCEPT ![s].pc = "insertStaff",
                                ![s].writes = Append(@, Write("tenants", row)),
                                ![s].resolvedTenant = [id |-> row.id, slug |-> row.tenant_id]]
    /\ insertId' = [insertId EXCEPT !.tenants = @ + 1]
    /\ UNCHANGED <<tenants, products, orders, order_items, nextOrderId, locks, tx, req, nedits,
                   clients, appointments, areq, adminVars, staff>>

\* INSERT INTO staff (tenant_id, email, ..., role) VALUES (?, ?, ..., ?): for
\* the tenant just inserted and role admin in /register-tenant, for the
\* resolved tenant and the role of the body in the staff routes.
AccountInsertStaff(s) ==
    /\ sreq[s].pc = "insertStaff"
    /\ LET q == sreq[s]
           row == [id |-> insertId.staff, tenant_id |-> q.resolvedTenant.id,
                   email |-> q.in.body.email,
                   role |-> IF q.in.route = "registerTenant" THEN <<"admin">>
                            ELSE q.in.body.role]
       IN  sreq' = [sreq EXCEPT ![s].pc = "commit",
                                ![s].writes = Append(@, Write("staff", row))]
    /\ insertId' = [insertId EXCEPT !.staff = @ + 1]
    /\ UNCHANGED <<tenants, products, orders, order_items, nextOrderId, locks, tx, req, nedits,
                   clients, appointments, areq, adminVars, staff>>

\* INSERT INTO clients (tenant_id, name, email, password, ...) VALUES (...)
AccountInsertClient(s) ==
    /\ sreq[s].pc = "insertClient"
    /\ LET q == sreq[s]
           row == [id |-> insertId.clients, tenant_id |-> q.resolvedTenant.id,
                   email |-> q.in.body.email, password |-> Hash(q.in.body.password)]
       IN  sreq' = [sreq EXCEPT ![s].pc = "commit",
                                ![s].writes = Append(@, Write("clients", row))]
    /\ insertId' = [insertId EXCEPT !.clients = @ + 1]
    /\ UNCHANGED <<tenants, products, orders, order_items, nextOrderId, locks, tx, req, nedits,
                   clients, appointments, areq, adminVars, staff>>

\* The schema is not part of the repository.  Where the slug of tenants, or the
\* email of staff or of clients, is declared unique, the INSERT of a key that a
\* committed row of the same table holds raises a duplicate-entry error: the
\* catch block rolls back and answers 500.
DuplicateKey(q) ==
    CASE q.pc = "insertTenant" -> \E t \in tenants : t.tenant_id = q.in.body.tenant_id
      [] q.pc = "insertStaff" -> \E r \in staff : r.email = q.in.body.email
      [] q.pc = "insertClient" -> \E c \in clients : c.email = q.in.body.email
      [] OTHER -> FALSE

AccountDuplicateEntry(s) ==
    /\ DuplicateKey(sreq[s])
    /\ sreq' = [sreq EXCEPT ![s].pc = "rollback", ![s].pending = 500]
    /\ UNCHANGED <<tenants, products, orders, order_items, nextOrderId, locks, tx, req, nedits,
                   clients, appointments, areq, adminVars, staff, insertId>>

RowsWritten(q, table) ==
    { q.writes[k].row : k \in { j \in 1..Len(q.writes) : q.writes[j].table = table } }

\* connection.commit() resolves: the rows of the transaction are stored, the
\* answer is 201, and finally the connection is released.
AccountCommit(s) ==
    /\ sreq[s].pc = "commit"
    /\ tenants' = tenants \cup RowsWritten(sreq[s], "tenants")
    /\ staff' = staff \cup RowsWritten(sreq[s], "staff")
    /\ clients' = clients \cup RowsWritten(sreq[s], "clients")
    /\ sreq' = [sreq EXCEPT ![s] = [RespondAccount(@, 201) EXCEPT !.inTx = FALSE]]
    /\ UNCHANGED <<products, orders, order_items, nextOrderId, locks, tx, req, nedits,
                   appointments, areq, adminVars, insertId>>

\* connection.rollback() resolves: the rows of the transaction are dropped,
\* the answer is the one the handler chose, and finally the connection is
\* released.
AccountRollback(s) ==
    /\ sreq[s].pc = "rollback"
    /\ sreq' = [sreq EXCEPT ![s] =
            [RespondAccount(@, @.pending) EXCEPT !.inTx = FALSE, !.writes = << >>]]
    /\ UNCHANGED <<tenants, products, orders, order_items, nextOrderId, locks, tx, req, nedits,
                   clients, appointments, areq, adminVars, staff, insertId>>

\* The tenant whose staff the statement of a staff route names: the resolved
\* one, or the one of the path.
StatementTenantId(q) ==
    IF q.in.route \in PathStaffRoutes THEN ParseInt(q.in.tenantIdParam)
    ELSE q.resolvedTenant.id

StaffMatched(q) ==
    { r \in staff : r.id = ParseInt(q.in.staffId) /\ r.tenant_id = StatementTenantId(q) }

\* UPDATE staff SET name = ?, role = ?, is_admin = ? WHERE id = ? AND tenant_id = ?
AccountUpdateStaff(s) ==
    /\ sreq[s].pc = "updateStaff"
    /\ LET matched == StaffMatched(sreq[s])
       IN  /\ staff' = { IF r \in matched THEN [r EXCEPT !.role = sreq[s].in.body.role] ELSE r :
                            r \in staff }
           /\ sreq' = [sreq EXCEPT ![s] = RespondAccount(@, IF matched = {} THEN 404 ELSE 200)]
    /\ UNCHANGED <<tenants, products, orders, order_items, nextOrderId, locks, tx, req, nedits,
                   clients, appointments, areq, adminVars, insertId>>

\* DELETE FROM staff WHERE id = ? AND tenant_id = ?
AccountDeleteStaff(s) ==
    /\ sreq[s].pc = "deleteStaff"
    /\ LET matched == StaffMatched(sreq[s])
       IN  /\ staff' = staff \ matched
           /\ sreq' = [sreq EXCEPT ![s] = RespondAccount(@, IF matched = {} THEN 404 ELSE 200)]
    /\ UNCHANGED <<tenants, products, orders, order_items, nextOrderId, locks, tx, req, nedits,
                   clients, appointments, areq, adminVars, insertId>>

\* SELECT * FROM clients WHERE email = ? AND tenant_id = ? returns: 401
\* without a row, else bcrypt.compare is started.
AccountSelectClient(s) ==
    /\ sreq[s].pc = "selectClient"
    /\ LET rows == { c \in clients : /\ c.email = sreq[s].in.body.email
                                     /\ c.tenant_id = sreq[s].resolvedTenant.id }
       IN  sreq' = [sreq EXCEPT ![s] =
             IF rows = {} THEN RespondAccount(@, 401)
             ELSE [@ EXCEPT !.pc = "compare", !.rows = rows]]
    /\ UNCHANGED <<tenants, products, orders, order_items, nextOrderId, locks, tx, req, nedits,
                   clients, appointments, areq, adminVars, staff, insertId>>

\* const client = rows[0]
FirstRow(rows) == CHOOSE c \in rows : \A d \in rows : c.id <= d.id

\* bcrypt.compare resolves: 401 on a mismatch, else 200 with the token.
AccountCompare(s) ==
    /\ sreq[s].pc = "compare"
    /\ LET q == sreq[s]
           client == FirstRow(q.rows)
       IN  sreq' = [sreq EXCEPT ![s] =
             IF ~Compare(q.in.body.password, client.password) THEN RespondAccount(q, 401)
             ELSE [RespondAccount(q, 200) EXCEPT !.token = ClientLoginToken(q.tenantId, client)]]
    /\ UNCHANGED <<tenants, products, orders, order_items, nextOrderId, locks, tx, req, nedits,
                   clients, appointments, areq, adminVars, staff, insertId>>

\* The steps of the staff routes.
StaffStep(s) ==
    \/ AccountTenantLookupReturns(s)
    \/ AccountGetConnection(s)
    \/ AccountBeginTransaction(s)
    \/ AccountTenantByIdReturns(s)
    \/ AccountSelectEmail(s)
    \/ AccountHash(s)
    \/ AccountInsertStaff(s)
    \/ AccountDuplicateEntry(s)
    \/ AccountCommit(s)
    \/ AccountRollback(s)
    \/ AccountUpdateStaff(s)
    \/ AccountDeleteStaff(s)

InputsOfStaff(s) == IF s = 1 THEN StaffInputs ELSE StaffInputs2

NextStaff ==
    \E s \in AccountReqs :
        \/ \E input \in InputsOfStaff(s) : ReceiveAccount(s, input)
        \/ StaffStep(s)

\* Two concurrent requests to the staff routes of either version.
SpecStaff == Init /\ [][NextStaff]_vars

\* The steps of /register-tenant, of the client's /register and of the
\* creation of staff.
RegistrationStep(s) ==
    \/ AccountTenantLookupReturns(s)
    \/ AccountGetConnection(s)
    \/ AccountBeginTransaction(s)
    \/ AccountSelectTenant(s)
    \/ AccountSelectEmail(s)
    \/ AccountHash(s)
    \/ AccountInsertTenant(s)
    \/ AccountInsertStaff(s)
    \/ AccountInsertClient(s)
    \/ AccountDuplicateEntry(s)
    \/ AccountCommit(s)
    \/ AccountRollback(s)

NextRegistration ==
    \E s \in AccountReqs :
        \/ \E input \in RegistrationInputs : ReceiveAccount(s, input)
        \/ RegistrationStep(s)

\* Two concurrent requests among /register-tenant, the client's /register
\* and the creation of staff.
SpecRegistration == Init /\ [][NextRegistration]_vars

NextLogin ==
    \E s \in AccountReqs :
        \/ \E input \in LoginInputs : ReceiveAccount(s, input)
        \/ AccountTenantLookupReturns(s)
        \/ AccountSelectClient(s)
        \/ AccountCompare(s)

\* Two concurrent logins of clients.
SpecLogin == Init /\ [][NextLogin]_vars

(***************************************************************************)
(* POST /api/appointments/appointments: the handler                        *)
(***************************************************************************)
RespondAppt(q, status) == [q EXCEPT !.pc = "done", !.status = status]

\* A booking arrives.  resolveTenant, verifyToken, ensureSameTenant and the
\* handler's check of the required fields are synchronous; then the client
\* lookup is sent.
ReceiveAppointment(a, input) ==
    /\ areq[a].pc = "idle"
    /\ LET slug == ResolveTenant(input.hostname, input.xTenantSlug)
           v == VerifyTokenAppointments(input.authorization)
           q == [areq[a] EXCEPT !.in = input, !.tenantId = slug, !.user = v.user]
           same == EnsureSameTenant(v.user, input.body)
           fields == RequiredFieldsStatus(input.body)
       IN  areq' = [areq EXCEPT ![a] =
                IF v.status # 0 THEN RespondAppt(q, v.status)
                ELSE IF same # 0 THEN RespondAppt(q, same)
                ELSE IF fields # 0 THEN RespondAppt(q, fields)
                ELSE [q EXCEPT !.pc = "clientCheck"]]
    /\ UNCHANGED <<tenants, products, orders, order_items, nextOrderId, locks, tx, req, nedits,
                   clients, appointments, adminVars, accountVars>>

\* SELECT id FROM tenants WHERE tenant_id = ?
SelectTenantIds(tenantSlug) == { t.id : t \in { u \in tenants : u.tenant_id = tenantSlug } }

\* SELECT id FROM clients WHERE id = ? AND tenant_id = (SELECT id FROM tenants WHERE tenant_id = ?)
SelectClient(clientId, tenantSlug) ==
    { c \in clients : c.id = clientId /\ c.tenant_id \in SelectTenantIds(tenantSlug) }

\* The client lookup returns: 404 without a row, else the tenant lookup is sent.
ClientCheckReturns(a) ==
    /\ areq[a].pc = "clientCheck"
    /\ LET body == areq[a].in.body
       IN  areq' = [areq EXCEPT ![a] =
                IF SelectClient(body.clientId, body.tenantId) = {} THEN RespondAppt(@, 404)
                ELSE [@ EXCEPT !.pc = "tenantRows"]]
    /\ UNCHANGED <<tenants, products, orders, order_items, nextOrderId, locks, tx, req, nedits,
                   clients, appointments, adminVars, accountVars>>

\* The tenant lookup returns: 404 without a row, else the slot lookup is sent
\* with the numeric id of the tenant the body names.
TenantRowsReturn(a) ==
    /\ areq[a].pc = "tenantRows"
    /\ LET ids == SelectTenantIds(areq[a].in.body.tenantId)
       IN  areq' = [areq EXCEPT ![a] =
                IF ids = {} THEN RespondAppt(@, 404)
                ELSE [@ EXCEPT !.pc = "existing", !.tenantNumericId = CHOOSE id \in ids : TRUE]]
    /\ UNCHANGED <<tenants, products, orders, order_items, nextOrderId, locks, tx, req, nedits,
                   clients, appointments, adminVars, accountVars>>

\* SELECT * FROM appointments WHERE tenant_id = ? AND appointment_date = ? AND appointment_time = ?
SelectAppointments(tenantNumericId, appointmentDate, appointmentTime) ==
    LET Same(row) == /\ row.tenant_id = tenantNumericId
                     /\ row.appointment_date = appointmentDate
                     /\ row.appointment_time = appointmentTime
    IN  SelectSeq(appointments, Same)

\* The slot lookup returns: 409 when the slot is taken, else the insert is sent.
ExistingAppointmentsReturn(a) ==
    /\ areq[a].pc = "existing"
    /\ LET body == areq[a].in.body
           existing == SelectAppointments(areq[a].tenantNumericId,
                                          body.appointmentDate, body.appointmentTime)
       IN  areq' = [areq EXCEPT ![a] =
                IF Len(existing) > 0 THEN RespondAppt(@, 409)
                ELSE [@ EXCEPT !.pc = "insert"]]
    /\ UNCHANGED <<tenants, products, orders, order_items, nextOrderId, locks, tx, req, nedits,
                   clients, appointments, adminVars, accountVars>>

\* The row INSERT INTO appointments writes.
AppointmentRow(id, body, tenantNumericId) ==
    [id |-> id, client_id |-> body.clientId, tenant_id |-> tenantNumericId,
     pet_name |-> body.petName, appointment_date |-> body.appointmentDate,
     appointment_time |-> body.appointmentTime]

\* INSERT INTO appointments returns with its insertId: 201.
InsertAppointment(a) ==
    /\ areq[a].pc = "insert"
    /\ appointments' = Append(appointments,
            AppointmentRow(Len(appointments) + 1, areq[a].in.body, areq[a].tenantNumericId))
    /\ areq' = [areq EXCEPT ![a] = [RespondAppt(@, 201) EXCEPT !.id = Len(appointments) + 1]]
    /\ UNCHANGED <<tenants, products, orders, order_items, nextOrderId, locks, tx, req, nedits,
                   clients, adminVars, accountVars>>

\* The schema is not part of the repository.  Where (tenant_id,
\* appointment_date, appointment_time) is declared unique, the INSERT of a slot
\* that a row holds raises a duplicate-entry error: the catch block answers 500.
AppointmentDuplicateEntry(a) ==
    /\ areq[a].pc = "insert"
    /\ Len(SelectAppointments(areq[a].tenantNumericId, areq[a].in.body.appointmentDate,
                              areq[a].in.body.appointmentTime)) > 0
    /\ areq' = [areq EXCEPT ![a] = RespondAppt(@, 500)]
    /\ UNCHANGED <<tenants, products, orders, order_items, nextOrderId, locks, tx, req, nedits,
                   clients, appointments, adminVars, accountVars>>

(***************************************************************************)
(* Specifications                                                          *)
(***************************************************************************)
RequestStep(r) ==
    \/ \E input \in InputsOf(r) : Receive(r, input)
    \/ TenantLookupReturns(r)
    \/ GetConnection(r)
    \/ BeginTransaction(r)
    \/ CheckItem(r)
    \/ DeadlockVictim(r)
    \/ InsertOrder(r)
    \/ InsertItem(r)
    \/ UpdateStock(r)
    \/ Commit(r)
    \/ Rollback(r)
    \/ OrdersQuery(r)
    \/ ItemsQuery(r)

CatalogStep ==
    \/ \E t \in TenantIds, p \in CatalogProducts, price \in CatalogPrices, stock \in CatalogStocks :
            UpdateProduct(t, p, price, stock)
    \/ \E t \in TenantIds, p \in CatalogProducts, a \in BOOLEAN : SetAvailable(t, p, a)

NextOrders == \E r \in Reqs : RequestStep(r)

Next == NextOrders \/ CatalogStep

\* Requests and catalog edits.
Spec == Init /\ [][Next]_vars

\* Requests only: the catalog is not edited.
SpecOrders == Init /\ [][NextOrders]_vars

AppointmentStep(a) ==
    \/ \E input \in ApptInputsOf(a) : ReceiveAppointment(a, input)
    \/ ClientCheckReturns(a)
    \/ TenantRowsReturn(a)
    \/ ExistingAppointmentsReturn(a)
    \/ InsertAppointment(a)

NextAppointments == \E a \in ApptReqs : AppointmentStep(a)

\* The statements of the order transaction, each of which the database answers.
TransactionStep(r) ==
    \/ GetConnection(r)
    \/ BeginTransaction(r)
    \/ CheckItem(r)
    \/ DeadlockVictim(r)
    \/ InsertOrder(r)
    \/ InsertItem(r)
    \/ UpdateStock(r)
    \/ Commit(r)
    \/ Rollback(r)

\* Requests only, where the pool and the database eventually answer every
\* statement that can be answered, a lock wait once the lock is free and a
\* cycle of lock waits by failing one of its statements.
FairSpecOrders == SpecOrders /\ \A r \in Reqs : WF_vars(TransactionStep(r))

NextFaults == NextOrders \/ \E r \in Reqs : StatementFails(r)

\* Requests only, any awaited statement of a transaction may be rejected.
SpecFaults == Init /\ [][NextFaults]_vars

QuantityStep(r) ==
    \/ \E input \in QuantityInputs : Receive(r, input)
    \/ TenantLookupReturns(r)
    \/ TransactionStep(r)

NextQuantities == \E r \in Reqs : QuantityStep(r)

\* Orders only, with lines of any integer quantity.
SpecQuantities == Init /\ [][NextQuantities]_vars

\* The server starts on tables that already hold orders of several clients
\* and tenants.
InitHistory ==
    /\ tenants = TenantRows
    /\ products = InitProducts
    /\ orders = HistoryOrders
    /\ order_items = HistoryOrderItems
    /\ nextOrderId = Len(HistoryOrders) + 1
    /\ locks = [p \in ProductIds |-> NoHolder]
    /\ tx = [r \in Reqs |-> NoTx]
    /\ req = [r \in Reqs |-> IdleReq]
    /\ nedits = 0
    /\ clients = ClientRows
    /\ appointments = << >>
    /\ areq = [a \in ApptReqs |-> IdleApptReq]
    /\ InitAdmin
    /\ InitAccounts

\* Requests only, on tables with earlier orders.
SpecHistory == InitHistory /\ [][NextOrders]_vars

\* Appointment bookings only.
SpecAppointments == Init /\ [][NextAppointments]_vars

NextSlots == NextAppointments \/ \E a \in ApptReqs : AppointmentDuplicateEntry(a)

\* Appointment bookings, with or without a unique index on the slot.
SpecSlots == Init /\ [][NextSlots]_vars

(***************************************************************************)
(* Vocabulary of the properties                                            *)
(***************************************************************************)
\* What each credential and each host of the inputs stands for, stated
\* independently of the parsing code.
CredentialSlug(authorization) ==
    CASE authorization = AuthChavez1 -> <<"chavez">>
      [] authorization = AuthAcme3 -> <<"acme">>
      [] OTHER -> Undefined

HostSlug(hostname, xTenantSlug) ==
    CASE hostname = HostChavez.hostname -> <<"chavez">>
      [] hostname = HostLocalAcme.hostname /\ xTenantSlug = HostLocalAcme.xTenantSlug -> <<"acme">>
      [] hostname = HostLocalDefault.hostname /\ xTenantSlug = HostLocalDefault.xTenantSlug -> <<"chavez">>
      [] OTHER -> Undefined

Received(r) == req[r].pc # "idle"
Done(r) == req[r].pc = "done"
HoldsNoLock(r) == \A p \in ProductIds : locks[p] # r
\* r has touched neither a connection, a transaction nor a row lock.
NoTransaction(r) == req[r].conn = "none" /\ tx[r] = NoTx /\ HoldsNoLock(r)

RECURSIVE SumQuantity(_, _)
\* Sum of the quantities of the order items of product p.
SumQuantity(items, p) ==
    IF items = << >> THEN 0
    ELSE (IF Head(items).product_id = p THEN Head(items).quantity ELSE 0)
         + SumQuantity(Tail(items), p)

RECURSIVE SumAmount(_, _)
\* Sum of unit_price * quantity over the order items of order id.
SumAmount(items, id) ==
    IF items = << >> THEN 0
    ELSE (IF Head(items).order_id = id THEN Head(items).unit_price * Head(items).quantity ELSE 0)
         + SumAmount(Tail(items), id)

\* Days from today to the pickup date of r's body.
PickupOffset(r) == req[r].in.body.pickupDate - Today

\* r reached the handler of POST /api/orders.
OrderHandled(r) == req[r].in.route = "createOrder" /\ req[r].ran

(***************************************************************************)
(* C1: a request to POST /api/orders or GET /api/orders/my-orders whose    *)
(* client credential carries slug A while the host or header resolves to   *)
(* a registered tenant B # A is answered 403 and its route handler never    *)
(* runs: it opens no connection or transaction and takes no row lock,       *)
(* whatever tenant the body names.                                          *)
(***************************************************************************)
CrossTenant(r) ==
    /\ Received(r)
    /\ CredentialSlug(req[r].in.authorization) # Undefined
    /\ HostSlug(req[r].in.hostname, req[r].in.xTenantSlug) # Undefined
    /\ CredentialSlug(req[r].in.authorization) # HostSlug(req[r].in.hostname, req[r].in.xTenantSlug)

C2_NoOversell ==
    \A p \in ProductIds : SumQuantity(order_items, p) <= InitProducts[p].stock

(***************************************************************************)
(* C3: the committed stock of every product is never negative, also when   *)
(* an order names the same product on several lines.                       *)
(***************************************************************************)
C3_StockNonNegative == \A p \in ProductIds : products[p].stock >= 0

(***************************************************************************)
(* C4: a createOrder request with a line that fails the availability or    *)
(* stock check persists nothing: every step of a request that changes a    *)
(* committed row of products, orders or order_items is taken by a request   *)
(* all of whose lines name an available product of its tenant with stock    *)
(* at least the line's quantity.                                            *)
(***************************************************************************)
LinePasses(r, k) ==
    LET item == Items(r)[k]
    IN  /\ item.productId \in ProductIds
        /\ products[item.productId].tenant_id = req[r].resolvedTenant.id
        /\ products[item.productId].is_available
        /\ products[item.productId].stock >= item.quantity

C4_FailedOrderPersistsNothing ==
    [][\A r \in Reqs :
         (req'[r] # req[r] /\ <<products, orders, order_items>>' # <<products, orders, order_items>>)
            => \A k \in 1..Len(Items(r)) : LinePasses(r, k)]_vars

\* The second line of a two-line order failed the stock check after the first
\* passed, and the tables are as they were.
C4_Witness ==
    \E r \in Reqs :
        /\ Done(r) /\ req[r].status = 500 /\ req[r].err = "insufficient"
        /\ req[r].i = 2
        /\ products = InitProducts /\ orders = << >> /\ order_items = << >>

(***************************************************************************)
(* C5: two createOrder requests for the same available product of their    *)
(* tenant, each of one line, with stock S and                               *)
(* quantities q1 <= S, q2 <= S, q1 + q2 > S: whatever the interleaving,     *)
(* exactly one commits (201), the other fails with insufficient stock, and  *)
(* the final stock is S minus the committed quantity (no catalog edits).    *)
(***************************************************************************)
SingleLineOn(r, p) ==
    /\ OrderHandled(r) /\ Done(r) /\ req[r].status \in {201, 500}
    /\ Len(Items(r)) = 1
    /\ Items(r)[1].productId = p

Racing(p) ==
    /\ SingleLineOn(1, p) /\ SingleLineOn(2, p)
    /\ \A r \in Reqs : InitProducts[p].tenant_id = req[r].resolvedTenant.id
    /\ InitProducts[p].is_available
    /\ Items(1)[1].quantity <= InitProducts[p].stock
    /\ Items(2)[1].quantity <= InitProducts[p].stock
    /\ Items(1)[1].quantity + Items(2)[1].quantity > InitProducts[p].stock

WinsOver(w, l, p) ==
    /\ req[w].status = 201
    /\ req[l].status = 500 /\ req[l].err = "insufficient"
    /\ products[p].stock = InitProducts[p].stock - Items(w)[1].quantity
    /\ SumQuantity(order_items, p) = Items(w)[1].quantity

C5_ExactlyOneWins ==
    \A p \in ProductIds : Racing(p) => (WinsOver(1, 2, p) \/ WinsOver(2, 1, p))

\* Both requests asked for all but one unit of product 1, and request 2 won.
C5_Witness ==
    /\ Racing(1) /\ WinsOver(2, 1, 1)
    /\ Items(1)[1].quantity = MaxStock - 1 /\ Items(2)[1].quantity = MaxStock - 1
    /\ products[1].stock = 1

(***************************************************************************)
(* C6: the total_amount of every committed order is the sum of             *)
(* unit_price * quantity over its order items; every unit_price written by  *)
(* a commit is the price of the product row the transaction holds locked;   *)
(* and the total of a 201 response is the persisted total of its order.     *)
(***************************************************************************)
TotalsConsistent ==
    /\ \A k \in 1..Len(orders) :
            orders[k].total_amount = SumAmount(order_items, orders[k].id)
    /\ \A r \in Reqs : req[r].status = 201 =>
            \E k \in 1..Len(orders) :
                orders[k].id = req[r].orderId /\ orders[k].total_amount = req[r].total

CommittedAtLockedPrice ==
    \A k \in 1..Len(order_items') :
        k > Len(order_items) =>
            /\ order_items'[k].product_id \in ProductIds
            /\ order_items'[k].unit_price = products[order_items'[k].product_id].price
            /\ locks[order_items'[k].product_id] \in Reqs

C6_TotalFromLockedPrices == []TotalsConsistent /\ [][CommittedAtLockedPrice]_vars

\* A committed two-line order of two products, placed after the price of
\* product 1 was changed in the catalog.
C6_Witness ==
    \E r \in Reqs :
        /\ req[r].status = 201 /\ Len(Items(r)) = 2
        /\ Items(r)[1].productId # Items(r)[2].productId
        /\ products[1].price # InitProducts[1].price
        /\ req[r].total = products[1].price + products[2].price

(***************************************************************************)
(* C7: committed orders and order items never change, in particular not    *)
(* when the catalog changes a price; GET /api/orders/my-orders reports the  *)
(* stored total_amount and unit_price of each order it returns.             *)
(***************************************************************************)
IsPrefix(s, t) == Len(s) <= Len(t) /\ \A k \in 1..Len(s) : s[k] = t[k]

StoredItems(id) == LET Of(item) == item.order_id = id IN SelectSeq(order_items, Of)

ReportsStored(o) ==
    /\ \E k \in 1..Len(orders) : orders[k].id = o.id /\ orders[k].total_amount = o.total_amount
    /\ Len(o.items) <= Len(StoredItems(o.id))
    /\ \A k \in 1..Len(o.items) :
            /\ o.items[k].product_id = StoredItems(o.id)[k].product_id
            /\ o.items[k].quantity = StoredItems(o.id)[k].quantity
            /\ o.items[k].unit_price = StoredItems(o.id)[k].unit_price

MyOrdersReportStored ==
    \A r \in Reqs : (Done(r) /\ req[r].in.route = "myOrders" /\ req[r].status = 200) =>
        \A k \in 1..Len(req[r].result) : ReportsStored(req[r].result[k])

C7_PricesFrozen ==
    /\ [][IsPrefix(orders, orders') /\ IsPrefix(order_items, order_items')]_vars
    /\ []MyOrdersReportStored

\* The history of the client shows an item at a unit price that is no longer
\* the price of its product.
C7_Witness ==
    \E r \in Reqs :
        /\ Done(r) /\ req[r].in.route = "myOrders" /\ req[r].status = 200
        /\ Len(req[r].result) >= 1 /\ Len(req[r].result[1].items) >= 1
        /\ req[r].result[1].items[1].unit_price
                # products[req[r].result[1].items[1].product_id].price

(***************************************************************************)
(* C8: with items and a pickup date d days from today, createOrder passes   *)
(* validation exactly when 1 <= d <= 10: today and today + 11 are answered  *)
(* 400, today + 1 and today + 10 go on to the transaction.                  *)
(***************************************************************************)
HasItemsAndDate(r) ==
    /\ req[r].in.body.hasItems /\ Len(Items(r)) > 0
    /\ req[r].in.body.pickupDate # MissingDate

Rejected400(r) == Done(r) /\ req[r].status = 400

C8_PickupWindow ==
    \A r \in Reqs : (OrderHandled(r) /\ HasItemsAndDate(r)) =>
        (Rejected400(r) <=> ~(1 <= PickupOffset(r) /\ PickupOffset(r) <= 10))

\* A pickup date ten days from today is in a transaction.
C8_Witness ==
    \E r \in Reqs :
        /\ OrderHandled(r) /\ HasItemsAndDate(r)
        /\ PickupOffset(r) = 10 /\ req[r].pc = "check"

(***************************************************************************)
(* C9: createOrder with an empty or missing items list, a missing pickup    *)
(* date or a pickup date outside the window answers 400 in the step that    *)
(* enters the handler: it never holds a connection, a transaction or a row  *)
(* lock.                                                                    *)
(***************************************************************************)
InvalidBody(r) ==
    \/ ~req[r].in.body.hasItems
    \/ Len(Items(r)) = 0
    \/ req[r].in.body.pickupDate = MissingDate
    \/ PickupOffset(r) < 1
    \/ PickupOffset(r) > 10

C9_ValidationBeforeTransaction ==
    \A r \in Reqs : (OrderHandled(r) /\ InvalidBody(r)) =>
        /\ Rejected400(r)
        /\ NoTransaction(r)
        /\ req[r].orderId = 0

\* A pickup date eleven days from today was answered 400 with no connection taken.
C9_Witness ==
    \E r \in Reqs :
        /\ OrderHandled(r) /\ HasItemsAndDate(r) /\ PickupOffset(r) = 11
        /\ Rejected400(r) /\ NoTransaction(r)

(***************************************************************************)
(* C10: a request whose bearer credential is absent, has an empty slug or   *)
(* a role outside {admin, doctor, receptionist, client} is answered 401 by   *)
(* verifyClientToken: ensureTenantAccess issues no tenant lookup, the        *)
(* handler does not run, and no connection is taken.                         *)
(***************************************************************************)
Unauthenticated(r) ==
    /\ Received(r)
    /\ req[r].in.authorization \in {AuthAbsent, AuthNoToken, AuthEmptySlug, AuthUnknownRole}

C10_Unauthenticated401 ==
    \A r \in Reqs : Unauthenticated(r) =>
        /\ Done(r) /\ req[r].status = 401
        /\ ~req[r].dbAccess /\ ~req[r].ran
        /\ req[r].resolvedTenant = NullTenant
        /\ NoTransaction(r)

\* A credential of the resolved tenant with an unknown role was answered 401.
C10_Witness ==
    \E r \in Reqs :
        /\ Unauthenticated(r) /\ req[r].in.authorization = AuthUnknownRole
        /\ req[r].tenantId = <<"chavez">>
        /\ Done(r) /\ req[r].status = 401

(***************************************************************************)
(* C11: POST /api/orders with a well-formed credential of the resolved      *)
(* tenant whose role is a staff role (admin) is answered 403 and creates    *)
(* no order.                                                                *)
(***************************************************************************)
StaffOnOrders(r) ==
    /\ Received(r)
    /\ req[r].in.route = "createOrder"
    /\ req[r].in.authorization = AuthAdmin
    /\ HostSlug(req[r].in.hostname, req[r].in.xTenantSlug) = <<"chavez">>

C11_StaffRoleForbidden ==
    \A r \in Reqs : StaffOnOrders(r) =>
        /\ Done(r) => req[r].status = 403
        /\ ~req[r].ran
        /\ NoTransaction(r)

\* What the code does with such a request: 401 from verifyClientToken, before
\* any tenant lookup, and no order.
C11_StaffRoleAnswered401 ==
    \A r \in Reqs : StaffOnOrders(r) =>
        /\ Done(r) /\ req[r].status = 401
        /\ ~req[r].dbAccess /\ ~req[r].ran
        /\ NoTransaction(r)

(***************************************************************************)
(* Vocabulary of the appointment properties                                *)
(***************************************************************************)
\* What each credential of the booking inputs stands for: the slug it was
\* issued for and, for a client, the subject id it carries.
ApptCredentialSlug(authorization) ==
    CASE authorization \in {AuthChavez1, AuthChavez2, AuthAdmin, AuthDoctor} -> <<"chavez">>
      [] authorization = AuthAcme3 -> <<"acme">>
      [] OTHER -> Undefined

ApptReceived(a) == areq[a].pc # "idle"
ApptDone(a) == areq[a].pc = "done"

\* The numeric id of the tenant the host or header of a's request resolves to.
ApptResolvedTenantIds(a) ==
    { t.id : t \in { u \in TenantRows :
                        u.tenant_id = HostSlug(areq[a].in.hostname, areq[a].in.xTenantSlug) } }

(***************************************************************************)
(* C12: the tenant an appointment is written to is the tenant resolved      *)
(* from the host or header of its request, and a booking whose credential   *)
(* slug A differs from the resolved slug B is answered 403, also when the   *)
(* body names tenant A.                                                     *)
(***************************************************************************)
ApptCrossTenant(a) ==
    /\ ApptReceived(a)
    /\ ApptCredentialSlug(areq[a].in.authorization) # Undefined
    /\ HostSlug(areq[a].in.hostname, areq[a].in.xTenantSlug) # Undefined
    /\ ApptCredentialSlug(areq[a].in.authorization)
            # HostSlug(areq[a].in.hostname, areq[a].in.xTenantSlug)

C12_AppointmentTenantIsResolved ==
    \A a \in ApptReqs :
        /\ ApptCrossTenant(a) => (ApptDone(a) /\ areq[a].status = 403)
        /\ areq[a].status = 201 =>
                appointments[areq[a].id].tenant_id \in ApptResolvedTenantIds(a)

\* What the code does: the appointment is written to the tenant the body
\* names, which is the tenant of the credential.
C12_AppointmentTenantIsBodyTenant ==
    \A a \in ApptReqs : areq[a].status = 201 =>
        /\ areq[a].in.body.tenantId = ApptCredentialSlug(areq[a].in.authorization)
        /\ appointments[areq[a].id].tenant_id \in SelectTenantIds(areq[a].in.body.tenantId)

(***************************************************************************)
(* C13: a booking with a client credential of subject id c is answered 403  *)
(* when its clientId is not c, and is not refused by the guard when its     *)
(* clientId is c and its tenantId is the slug of the credential.            *)
(***************************************************************************)
ApptCredentialSubject(authorization) ==
    CASE authorization = AuthChavez1 -> 1
      [] authorization = AuthChavez2 -> 2
      [] authorization = AuthAcme3 -> 3
      [] OTHER -> NoClientId

ClientBooking(a) ==
    /\ ApptReceived(a)
    /\ ApptCredentialSubject(areq[a].in.authorization) # NoClientId

C13_ClientBooksOnlyForItself ==
    \A a \in ApptReqs : ClientBooking(a) =>
        /\ areq[a].in.body.clientId # ApptCredentialSubject(areq[a].in.authorization)
                => (ApptDone(a) /\ areq[a].status = 403)
        /\ ( /\ areq[a].in.body.clientId = ApptCredentialSubject(areq[a].in.authorization)
             /\ areq[a].in.body.tenantId = ApptCredentialSlug(areq[a].in.authorization) )
                => areq[a].status # 403

\* What the code does: every client credential is given the id MockUserId,
\* so the guard lets a client book exactly for clientId MockUserId.
C13_ClientBooksOnlyForMockId ==
    \A a \in ApptReqs :
        ( /\ ClientBooking(a)
          /\ areq[a].in.body.tenantId = ApptCredentialSlug(areq[a].in.authorization) )
            => (areq[a].status = 403 <=> areq[a].in.body.clientId # MockUserId)

(***************************************************************************)
(* C14: createOrder takes its product row locks in ascending product id,    *)
(* whatever the order of the lines, so no state is reached in which two     *)
(* requests each wait for a row lock the other holds.                       *)
(***************************************************************************)
LocksAscending(r) ==
    \A p \in ProductIds : locks[p] = r =>
        (req[r].pc = "check" => p <= Items(r)[req[r].i].productId)

C14_NoLockCycle ==
    /\ \A r \in Reqs : LocksAscending(r)
    /\ \A r, other \in Reqs : ~(WaitsFor(r, other) /\ WaitsFor(other, r))

(***************************************************************************)
(* C15: when every statement the database can answer is eventually          *)
(* answered, a createOrder request that has opened its transaction          *)
(* eventually ends it, by commit with 201 or by rollback with 500, with     *)
(* its locks and its connection released; the response of a request is      *)
(* sent once; and a request waiting for a row lock stops waiting, its       *)
(* holder having committed or rolled back or its own statement having       *)
(* failed.                                                                  *)
(***************************************************************************)
InTransaction(r) ==
    req[r].pc \in {"check", "insertOrder", "insertItem", "updateStock", "commit", "rollback"}

Ended(r) ==
    /\ Done(r) /\ req[r].status \in {201, 500}
    /\ req[r].conn = "released" /\ tx[r] = NoTx /\ HoldsNoLock(r)

RespondsOnce == \A r \in Reqs : Done(r) => req'[r] = req[r]

\* r, waiting for `other`, is granted the lock only when `other` has ended its transaction.
WaitEndsWithHolder ==
    \A r, other \in Reqs :
        (WaitsFor(r, other) /\ ~WaitsFor(r, other)')
            => (Ended(other)' \/ req'[r].pc = "rollback")

ProductsOf(r) == { Items(r)[k].productId : k \in 1..Len(Items(r)) }

DisjointOrders(r, other) ==
    /\ r # other
    /\ OrderHandled(r) /\ OrderHandled(other)
    /\ ProductsOf(r) \cap ProductsOf(other) = {}

\* r's pending locking read cannot be answered while `other` holds a lock.
BlockedBy(r, other) ==
    /\ req[r].pc = "check"
    /\ ~CanLock(r, Items(r)[req[r].i].productId)
    /\ \E p \in ProductIds : locks[p] = other

C16_DisjointOrdersDoNotBlock ==
    \A r, other \in Reqs : DisjointOrders(r, other) =>
        /\ ~BlockedBy(r, other)
        /\ \A p \in ProductIds : locks[p] = r => p \in ProductsOf(r)

\* Request 1 is about to lock product 1 of chavez while request 2 holds the
\* lock on product 2 of the same tenant.
C16_Witness ==
    /\ DisjointOrders(1, 2)
    /\ req[1].pc = "check" /\ Items(1)[req[1].i].productId = 1
    /\ locks[2] = 2 /\ locks[1] = NoHolder
    /\ InTransaction(2)
    /\ InitProducts[1].tenant_id = InitProducts[2].tenant_id

(***************************************************************************)
(* C17: without catalog edits, the committed stock of every product is its  *)
(* initial stock minus the quantities of its committed order items, and     *)
(* whenever a request's stock check is answered no other transaction has    *)
(* an uncommitted decrement on that row: the check compares the line's      *)
(* quantity with the committed stock.                                       *)
(***************************************************************************)
StockMatchesCommittedItems ==
    \A p \in ProductIds :
        products[p].stock = InitProducts[p].stock - SumQuantity(order_items, p)

\* r's locking read of its current line is answered in this step.
CheckAnswered(r) ==
    /\ req[r].pc = "check"
    /\ req'[r] # req[r]
    /\ req'[r].err # "deadlock"

ChecksCommittedStock ==
    \A r \in Reqs : CheckAnswered(r) =>
        LET item == Items(r)[req[r].i]
        IN  item.productId \in ProductIds =>
                /\ \A other \in Reqs \ {r} : tx[other].delta[item.productId] = 0
                /\ req'[r].err = "insufficient" => products[item.productId].stock < item.quantity
                /\ req'[r].pc # "rollback" => products[item.productId].stock >= item.quantity

C17_StockFromCommittedOrders ==
    /\ []StockMatchesCommittedItems
    /\ [][ChecksCommittedStock]_vars

\* An order for product 1 has committed, and a later check of a quantity
\* that the initial stock would have covered failed on the committed stock.
C17_Witness ==
    /\ SumQuantity(order_items, 1) > 0
    /\ products[1].stock = InitProducts[1].stock - SumQuantity(order_items, 1)
    /\ \E r \in Reqs :
        /\ Done(r) /\ req[r].err = "insufficient"
        /\ Items(r)[req[r].i].productId = 1
        /\ Items(r)[req[r].i].quantity <= InitProducts[1].stock
        /\ Items(r)[req[r].i].quantity > products[1].stock

(***************************************************************************)
(* C18: in every committed state each order item belongs to a committed     *)
(* order, each order of a 201 response has exactly the lines of its         *)
(* request as items, and the stock taken from each product is the quantity  *)
(* of its committed order items; a request that fails after its order       *)
(* insert or between its item inserts leaves no order, no item and no       *)
(* decrement behind.                                                        *)
(***************************************************************************)
OrderIds == { orders[k].id : k \in 1..Len(orders) }

ItemsOfLines(r) ==
    /\ Len(StoredItems(req[r].orderId)) = Len(Items(r))
    /\ \A k \in 1..Len(Items(r)) :
            /\ StoredItems(req[r].orderId)[k].product_id = Items(r)[k].productId
            /\ StoredItems(req[r].orderId)[k].quantity = Items(r)[k].quantity

CommittedStateWhole ==
    /\ \A k \in 1..Len(order_items) : order_items[k].order_id \in OrderIds
    /\ \A id \in OrderIds : \E r \in Reqs : req[r].status = 201 /\ req[r].orderId = id
    /\ \A r \in Reqs : req[r].status = 201 => (req[r].orderId \in OrderIds /\ ItemsOfLines(r))
    /\ \A p \in ProductIds :
            InitProducts[p].stock - products[p].stock = SumQuantity(order_items, p)

FailedLeavesNothing ==
    \A r \in Reqs : (Done(r) /\ req[r].status = 500) =>
        /\ req[r].orderId \notin OrderIds
        /\ StoredItems(req[r].orderId) = << >>
        /\ tx[r] = NoTx

RollbackChangesNoTable ==
    \A r \in Reqs : (req[r].pc = "rollback" /\ req'[r] # req[r]) =>
        <<products, orders, order_items>>' = <<products, orders, order_items>>

C18_AllOrNothing ==
    /\ [](CommittedStateWhole /\ FailedLeavesNothing)
    /\ [][RollbackChangesNoTable]_vars

\* A two-line order failed on its second item, after the order, the first
\* item and the first decrement had been written, and nothing of it is left.
C18_Witness ==
    \E r \in Reqs :
        /\ Done(r) /\ req[r].status = 500 /\ req[r].err = "database"
        /\ req[r].orderId # 0 /\ req[r].i = 2
        /\ orders = << >> /\ order_items = << >> /\ products = InitProducts

(***************************************************************************)
(* C19: every committed order item has quantity at least 1, and no          *)
(* createOrder request raises the stock of a product (no catalog edits).    *)
(***************************************************************************)
C19_QuantitiesPositive ==
    /\ \A k \in 1..Len(order_items) : order_items[k].quantity >= 1
    /\ \A p \in ProductIds : products[p].stock <= InitProducts[p].stock

\* Without lines of quantity below 1 in any request, both hold.
HasLineBelowOne(r) == \E k \in 1..Len(Items(r)) : Items(r)[k].quantity < 1

C19_PositiveWhenAskedPositive ==
    (\A r \in Reqs : ~HasLineBelowOne(r)) => C19_QuantitiesPositive

(***************************************************************************)
(* C20: every product of a committed order item exists and belongs to the   *)
(* tenant of its order, and was available when the transaction read it      *)
(* under its lock and still is when it commits; a request with a line that  *)
(* names a product of another tenant, an unavailable product or a           *)
(* nonexistent product fails with 500 without having inserted any row,      *)
(* committed or not.                                                        *)
(***************************************************************************)
OrderOf(id) == orders[CHOOSE k \in 1..Len(orders) : orders[k].id = id]

ItemsOfOwnTenant ==
    \A k \in 1..Len(order_items) :
        /\ order_items[k].product_id \in ProductIds
        /\ order_items[k].order_id \in OrderIds
        /\ products[order_items[k].product_id].tenant_id = OrderOf(order_items[k].order_id).tenant_id

\* Line k of r names no product of r's tenant.
ForeignLine(r, k) ==
    \/ Items(r)[k].productId \notin ProductIds
    \/ InitProducts[Items(r)[k].productId].tenant_id # req[r].resolvedTenant.id

ForeignLineFails ==
    \A r \in Reqs : (OrderHandled(r) /\ \E k \in 1..Len(Items(r)) : ForeignLine(r, k)) =>
        /\ req[r].status # 201
        /\ req[r].orderId = 0 /\ tx[r] = NoTx
        /\ Done(r) => req[r].status \in {400, 500}

UnavailableLineFails ==
    \A r \in Reqs : CheckAnswered(r) =>
        LET p == Items(r)[req[r].i].productId
        IN  (p \notin ProductIds \/ ~products[p].is_available
                \/ products[p].tenant_id # req[r].resolvedTenant.id)
            <=> (req'[r].pc = "rollback" /\ req'[r].err = "unavailable" /\ req[r].orderId = 0)

CommitsAvailable ==
    \A k \in 1..Len(order_items') :
        k > Len(order_items) => products[order_items'[k].product_id].is_available

C20_ItemsOfAvailableOwnProducts ==
    /\ [](ItemsOfOwnTenant /\ ForeignLineFails)
    /\ [][UnavailableLineFails /\ CommitsAvailable]_vars

\* Product 1 of chavez was deactivated, and an order of a chavez client that
\* names it failed on that line with nothing written.
C20_Witness ==
    \E r \in Reqs :
        /\ Done(r) /\ req[r].status = 500 /\ req[r].err = "unavailable"
        /\ Items(r)[req[r].i].productId = 1
        /\ ~products[1].is_available
        /\ InitProducts[1].tenant_id = req[r].resolvedTenant.id
        /\ orders = << >> /\ order_items = << >>

(***************************************************************************)
(* C21: POST /api/orders answers 400 to an invalid body, 401 to a missing   *)
(* or invalid credential, 403 to a tenant mismatch, 404 to an unknown       *)
(* tenant and to an unavailable or unknown product, 500 to insufficient     *)
(* stock and to a database failure, and 201 to a committed order.           *)
(***************************************************************************)
CreateOrderDone(r) == Done(r) /\ req[r].in.route = "createOrder"

UnknownTenantRequest(r) ==
    /\ req[r].in.hostname = HostUnknown.hostname
    /\ CredentialSlug(req[r].in.authorization) # Undefined

\* The statuses of every outcome but that of a line without a product row.
OtherStatusesAsStated(r) ==
    /\ Unauthenticated(r) => req[r].status = 401
    /\ CrossTenant(r) => req[r].status = 403
    /\ UnknownTenantRequest(r) => req[r].status = 404
    /\ (OrderHandled(r) /\ InvalidBody(r)) => req[r].status = 400
    /\ req[r].err \in {"insufficient", "database", "deadlock"} => req[r].status = 500
    /\ (req[r].orderId # 0 /\ req[r].orderId \in OrderIds) <=> req[r].status = 201

C21_StatusesAsStated ==
    \A r \in Reqs : CreateOrderDone(r) =>
        /\ OtherStatusesAsStated(r)
        /\ req[r].err = "unavailable" => req[r].status = 404

\* What the code does: a line without a product row is answered 500, like
\* every other throw inside the transaction.
C21_UnavailableAnswered500 ==
    \A r \in Reqs : CreateOrderDone(r) =>
        /\ OtherStatusesAsStated(r)
        /\ req[r].err = "unavailable" => req[r].status = 500

(***************************************************************************)
(* C22: every committed order was placed by a request that was answered     *)
(* 201, and carries the numeric id of the tenant its host or header         *)
(* resolves to and the subject id of its credential, whatever tenantId and  *)
(* clientId its body names.                                                 *)
(***************************************************************************)
CredentialSubject(authorization) ==
    CASE authorization = AuthChavez1 -> 1
      [] authorization = AuthAcme3 -> 3
      [] OTHER -> NaN

\* The numeric id of the tenant with a slug, as the rows of tenants give it.
TenantIdOfSlug(slug) ==
    IF \E t \in TenantRows : t.tenant_id = slug
    THEN (CHOOSE t \in TenantRows : t.tenant_id = slug).id
    ELSE 0

C22_OrderOfPrincipal ==
    \A k \in 1..Len(orders) :
        \E r \in Reqs :
            /\ req[r].status = 201 /\ req[r].orderId = orders[k].id
            /\ orders[k].tenant_id
                    = TenantIdOfSlug(HostSlug(req[r].in.hostname, req[r].in.xTenantSlug))
            /\ orders[k].client_id = CredentialSubject(req[r].in.authorization)

\* A client of chavez placed an order on the chavez host with a body that
\* names tenant acme and another client; the order is of chavez and of the
\* client of the credential.
C22_Witness ==
    \E r \in Reqs :
        /\ req[r].status = 201 /\ Len(orders) >= 1 /\ orders[1].id = req[r].orderId
        /\ req[r].in.body.tenantId = <<"acme">>
        /\ req[r].in.body.clientId # CredentialSubject(req[r].in.authorization)
        /\ orders[1].tenant_id = 1 /\ orders[1].client_id = 1

(***************************************************************************)
(* C23: every order GET /api/orders/my-orders returns is a committed order  *)
(* of the subject of the credential in the resolved tenant, and carries     *)
(* exactly the stored items of that order.                                  *)
(***************************************************************************)
MyOrdersAnswered(r) == Done(r) /\ req[r].in.route = "myOrders" /\ req[r].status = 200

OwnOrder(r, id) ==
    /\ id \in OrderIds
    /\ OrderOf(id).client_id = CredentialSubject(req[r].in.authorization)
    /\ OrderOf(id).tenant_id = TenantIdOfSlug(HostSlug(req[r].in.hostname, req[r].in.xTenantSlug))

SameItem(reported, stored) ==
    /\ reported.product_id = stored.product_id
    /\ reported.quantity = stored.quantity
    /\ reported.unit_price = stored.unit_price

C23_MyOrdersExact ==
    \A r \in Reqs : MyOrdersAnswered(r) =>
        \A k \in 1..Len(req[r].result) :
            LET o == req[r].result[k]
            IN  /\ OwnOrder(r, o.id)
                /\ Len(o.items) = Len(StoredItems(o.id))
                /\ \A j \in 1..Len(o.items) : SameItem(o.items[j], StoredItems(o.id)[j])

\* What holds: the orders returned are the orders of the principal in the
\* resolved tenant that were committed when the first query ran, and every
\* item returned with an order is a stored item of that order.
MyOrdersOwn ==
    \A r \in Reqs : MyOrdersAnswered(r) =>
        \A k \in 1..Len(req[r].result) :
            LET o == req[r].result[k]
            IN  /\ OwnOrder(r, o.id)
                /\ Len(o.items) <= Len(StoredItems(o.id))
                /\ \A j \in 1..Len(o.items) : SameItem(o.items[j], StoredItems(o.id)[j])

FirstQueryComplete ==
    \A r \in Reqs : (req[r].pc = "ordersQuery" /\ req'[r] # req[r]) =>
        { req'[r].rows[k].id : k \in 1..Len(req'[r].rows) }
            = { id \in OrderIds : OwnOrder(r, id) }

C23_MyOrdersIsolated == []MyOrdersOwn /\ [][FirstQueryComplete]_vars


(***************************************************************************)
(* C24: catalog mutations stay within the resolved tenant                  *)
(***************************************************************************)
\* The product ids whose row a step stores, changes or removes.
ProductRowsChanged ==
    { p \in DOMAIN products \cup DOMAIN products' :
        \/ p \notin DOMAIN products
        \/ p \notin DOMAIN products'
        \/ products[p] # products'[p] }

TenantOfProductRow(p) ==
    IF p \in DOMAIN products' THEN products'[p].tenant_id ELSE products[p].tenant_id

\* The image rows a step stores or removes.
ImageRowsChanged == (images \ images') \cup (images' \ images)

\* The links a step stores, changes or removes.
LinkRowsChanged == (product_images \ product_images') \cup (product_images' \ product_images)

\* The link of a product belongs to the tenant of that product.
LinkOfTenant(pi, tenantDbId) ==
    pi.product_id \in DOMAIN products' => products'[pi.product_id].tenant_id = tenantDbId

CatalogRowsChanged ==
    ProductRowsChanged # {} \/ ImageRowsChanged # {} \/ LinkRowsChanged # {}

\* The credential of the catalog request is that of an administrator of the
\* resolved slug, and the slug is that of a registered tenant.
AdminOfResolvedTenant ==
    /\ creq.user # NoUser
    /\ creq.user.role = "admin"
    /\ creq.user.tenant_id = creq.tenantId
    /\ creq.resolvedTenant # NullTenant
    /\ creq.resolvedTenant = GetTenantInfoBySlug(creq.tenantId)

\* C24: every step of a product route that stores, changes or removes a row
\* of products, images or product_images does so for a credential whose role
\* is admin and whose slug is the resolved one, and every such row belongs to
\* the resolved tenant.
C24_CatalogWithinTenant ==
    [][ CatalogRowsChanged =>
            /\ AdminOfResolvedTenant
            /\ \A p \in ProductRowsChanged : TenantOfProductRow(p) = creq.resolvedTenant.id
            /\ \A i \in ImageRowsChanged : i.tenant_id = creq.resolvedTenant.id
            /\ \A pi \in LinkRowsChanged : LinkOfTenant(pi, creq.resolvedTenant.id) ]_vars

\* C24, the part that holds: rows change only for an administrator of the
\* resolved slug, and the rows of products that change are of the resolved
\* tenant.
C24_ProductRowsWithinTenant ==
    [][ CatalogRowsChanged =>
            /\ AdminOfResolvedTenant
            /\ \A p \in ProductRowsChanged : TenantOfProductRow(p) = creq.resolvedTenant.id ]_vars

\* The administrator of chavez has replaced the image of a product of acme.
C24_ForeignImageReplaced ==
    /\ creq.pc = "done"
    /\ creq.status = 200
    /\ creq.user.tenant_id = <<"chavez">>
    /\ [id |-> 2, tenant_id |-> 2] \notin images
    /\ \E pi \in product_images : pi.product_id = 3 /\ pi.image_id # 2


(***************************************************************************)
(* C25: staff of a tenant is managed by an administrator of that tenant    *)
(***************************************************************************)
\* The tenant whose administrator a credential names, if any.
AdminCredentialSlug(authorization) ==
    CASE authorization = AuthAdmin -> <<"chavez">>
      [] authorization = AuthAcmeAdmin -> <<"acme">>
      [] OTHER -> Undefined

\* The staff rows a step stores, changes or removes.
StaffRowsChanged == (staff \ staff') \cup (staff' \ staff)

SlugOfTenantId(id) == (CHOOSE t \in tenants : t.id = id).tenant_id

\* Request s stores, changes or removes staff rows only with a credential
\* slug:admin, and only rows of the tenant of that slug.
StaffChangeByOwnAdmin(s) ==
    (sreq'[s] # sreq[s] /\ StaffRowsChanged # {}) =>
        /\ AdminCredentialSlug(sreq[s].in.authorization) # Undefined
        /\ \A row \in StaffRowsChanged :
                SlugOfTenantId(row.tenant_id) = AdminCredentialSlug(sreq[s].in.authorization)

\* C25: in every version of the staff routes, staff of tenant T is created,
\* updated or deleted only for a credential whose slug is T and whose role is
\* admin.
C25_StaffOfOwnTenant == [][\A s \in AccountReqs : StaffChangeByOwnAdmin(s)]_vars

\* C25, the part that holds: the staff routes guarded by ensureTenantAccess
\* change staff of the resolved tenant only, for an administrator of it.
C25_GuardedStaffOfOwnTenant ==
    [][\A s \in AccountReqs :
          sreq[s].in.route \in GuardedStaffRoutes =>
              /\ StaffChangeByOwnAdmin(s)
              /\ (sreq'[s] # sreq[s] /\ StaffRowsChanged # {}) =>
                    /\ sreq[s].tenantId = AdminCredentialSlug(sreq[s].in.authorization)
                    /\ \A row \in StaffRowsChanged : row.tenant_id = sreq[s].resolvedTenant.id]_vars

\* An arbitrary bearer string has deleted the administrator of acme through
\* the path of tenant 2.
C25_ArbitraryTokenDeleted ==
    \E s \in AccountReqs :
        /\ sreq[s].pc = "done"
        /\ sreq[s].status = 200
        /\ sreq[s].in.route = "staffDeleteByPath"
        /\ sreq[s].in.authorization = AuthArbitrary
        /\ ~ \E r \in staff : r.id = 2


(***************************************************************************)
(* C26: tenant slugs are unique                                            *)
(***************************************************************************)
\* At most one row of tenants per slug.
SlugsUnique == \A t \in tenants, u \in tenants : t.tenant_id = u.tenant_id => t.id = u.id

\* A well-formed /register-tenant request that has been answered.
RegisterTenantAnswered(s) ==
    /\ sreq[s].pc = "done"
    /\ sreq[s].in.route = "registerTenant"
    /\ sreq[s].status \notin {400, 401}

\* The slug request s asked for has a row that is not of its own making.
SlugOfAnother(s) ==
    \E t \in tenants : /\ t.tenant_id = sreq[s].in.body.tenant_id
                       /\ t.id # sreq[s].resolvedTenant.id

\* No row of tenants or staff stems from request s.
NothingRegistered(s) ==
    /\ ~ \E t \in tenants : t.id = sreq[s].resolvedTenant.id
    /\ ~ \E r \in staff : r.tenant_id = sreq[s].resolvedTenant.id

\* A request for a slug that another registration holds was answered 409 and
\* stored nothing.
RegisteredSlugAnswered409 ==
    \A s \in AccountReqs :
        (RegisterTenantAnswered(s) /\ SlugOfAnother(s)) =>
            (sreq[s].status = 409 /\ NothingRegistered(s))

\* C26: after any interleaving of concurrent /register-tenant requests there
\* is at most one tenant row per slug, and a request for a slug that is
\* registered is answered 409 with no tenant or staff row inserted.
C26_SlugsUnique == SlugsUnique /\ RegisteredSlugAnswered409

\* C26, the part that holds: a request whose slug check found a committed row
\* is answered 409 and stores nothing.
C26_FoundSlugAnswered409 ==
    \A s \in AccountReqs :
        (RegisterTenantAnswered(s) /\ sreq[s].snapshot.taken
            /\ sreq[s].in.body.tenant_id \in sreq[s].snapshot.tenants) =>
                (sreq[s].status = 409 /\ sreq[s].resolvedTenant = NullTenant
                    /\ sreq[s].writes = << >>)

\* Two concurrent registrations of the same slug were both answered 201.
C26_BothRegistered ==
    /\ \A s \in AccountReqs : RegisterTenantAnswered(s) /\ sreq[s].status = 201
    /\ sreq[1].in.body.tenant_id = sreq[2].in.body.tenant_id
    /\ sreq[1].in.body.email # sreq[2].in.body.email


(***************************************************************************)
(* C27: one appointment per slot                                           *)
(***************************************************************************)
SameSlot(x, y) ==
    /\ x.tenant_id = y.tenant_id
    /\ x.appointment_date = y.appointment_date
    /\ x.appointment_time = y.appointment_time

\* At most one appointment per (tenant, appointment_date, appointment_time).
SlotsUnique ==
    \A i \in 1..Len(appointments), j \in 1..Len(appointments) :
        SameSlot(appointments[i], appointments[j]) => i = j

\* Booking a has been answered after its slot lookup was sent.
SlotRequestAnswered(a) == areq[a].pc = "done" /\ areq[a].tenantNumericId # 0

RequestsOfSameSlot(a, b) ==
    /\ areq[a].tenantNumericId = areq[b].tenantNumericId
    /\ areq[a].in.body.appointmentDate = areq[b].in.body.appointmentDate
    /\ areq[a].in.body.appointmentTime = areq[b].in.body.appointmentTime

\* C27: after any interleaving of concurrent bookings there is at most one
\* appointment per slot, and of two answered requests for the same slot one
\* was answered 409.
C27_OneAppointmentPerSlot ==
    /\ SlotsUnique
    /\ \A a \in ApptReqs, b \in ApptReqs :
         (a # b /\ SlotRequestAnswered(a) /\ SlotRequestAnswered(b) /\ RequestsOfSameSlot(a, b))
            => (areq[a].status = 409 \/ areq[b].status = 409)

\* C27, the part that holds: a request answered 409 has inserted nothing, and
\* a request whose slot lookup ran after the other's insert is answered 409.
C27_ConflictInsertsNothing ==
    \A a \in ApptReqs :
        (areq[a].pc = "done" /\ areq[a].status = 409) =>
            /\ areq[a].id = 0
            /\ \E k \in 1..Len(appointments) :
                    /\ appointments[k].tenant_id = areq[a].tenantNumericId
                    /\ appointments[k].appointment_date = areq[a].in.body.appointmentDate
                    /\ appointments[k].appointment_time = areq[a].in.body.appointmentTime

\* Two bookings of the same slot were both answered 201.
C27_DoubleBooked ==
    /\ \A a \in ApptReqs : SlotRequestAnswered(a) /\ areq[a].status = 201
    /\ RequestsOfSameSlot(1, 2)
    /\ ~SlotsUnique


(***************************************************************************)
(* C28: an email is registered once across staff and clients               *)
(***************************************************************************)
\* The rows that hold an email: table, id, email.
EmailHolders ==
    { <<"staff", r.id, r.email>> : r \in staff } \cup { <<"clients", c.id, c.email>> : c \in clients }

\* C28: after any interleaving of concurrent client registrations, staff
\* creations and tenant registrations, no email is held by two rows of staff
\* and clients.
C28_EmailRegisteredOnce ==
    \A x \in EmailHolders, y \in EmailHolders : x[3] = y[3] => x = y

\* C28, the part that holds: a request whose email lookups found a committed
\* row is answered 409 and stores nothing.
C28_FoundEmailAnswered409 ==
    \A s \in AccountReqs :
        (sreq[s].pc = "done" /\ sreq[s].snapshot.taken /\ sreq[s].status \notin {400, 401, 404}
            /\ sreq[s].in.body.email \in sreq[s].snapshot.staff \cup sreq[s].snapshot.clients) =>
                (sreq[s].status = 409 /\ sreq[s].writes = << >>)

\* A client registration and a staff creation with the same email were both
\* answered 201: the email is held by a row of clients and by a row of staff.
C28_EmailInBothTables ==
    /\ \A s \in AccountReqs : sreq[s].pc = "done" /\ sreq[s].status = 201
    /\ sreq[1].in.route = "clientRegister"
    /\ sreq[2].in.route = "staffCreate"
    /\ \E r \in staff, c \in clients : r.email = c.email /\ r.email = sreq[1].in.body.email


(***************************************************************************)
(* C29: the token of a client login is honoured on its tenant only         *)
(***************************************************************************)
\* The login of request s has been answered 200.
LoggedIn(s) == sreq[s].pc = "done" /\ sreq[s].in.route = "clientLogin" /\ sreq[s].status = 200

DigitOfId(id) == CASE id = 1 -> "1" [] id = 2 -> "2" [] OTHER -> "3"

\* The client rows of the tenant with a slug that hold an email.
ClientsOf(slug, email) ==
    { c \in clients : c.email = email /\ c.tenant_id = TenantIdOfSlug(slug) }

\* A request on a host with the token as bearer credential passes
\* verifyClientToken and ensureTenantAccess.
TokenAccepted(token, host) ==
    LET slug == ResolveTenant(host.hostname, host.xTenantSlug)
        v == VerifyClientToken(Bearer(token))
    IN  /\ v.status = 0
        /\ ~Falsy(slug)
        /\ TenantAccessStatus(GetTenantInfoBySlug(slug), v.user, slug, NoAccountInput.body) = 0

AnsweredHoldsNoConnection ==
    \A r \in Reqs : Done(r) => req[r].conn \in {"none", "released"}

\* Row locks and uncommitted writes belong to requests that hold their connection.
TransactionOnHeldConnection ==
    \A r \in Reqs : (tx[r] # NoTx \/ ~HoldsNoLock(r)) => req[r].conn = "held"

\* The connection of r goes from the pool to r and back, once: it is acquired
\* by a request that holds none, released by the step in which the commit or
\* the rollback resolves, and a released connection is not touched again.
ConnectionStep(r) ==
    req'[r].conn # req[r].conn =>
        \/ req[r].conn = "none" /\ req'[r].conn = "held" /\ req[r].pc = "getConnection"
        \/ /\ req[r].conn = "held" /\ req'[r].conn = "released"
           /\ req[r].pc \in {"commit", "rollback"}
           /\ Done(r)'
           /\ tx'[r] = NoTx
           /\ HoldsNoLock(r)'

\* C30: every connection acquired by createOrder is released exactly once on
\* every path, after the commit or the rollback of the transaction and never
\* while the transaction holds row locks.
C30_ReleasedOnceAfterTransaction ==
    /\ [](AnsweredHoldsNoConnection /\ TransactionOnHeldConnection)
    /\ [][\A r \in Reqs : ConnectionStep(r)]_vars

\* Request 1 committed its order and request 2 failed on a database error after
\* it had locked a row; both connections are back in the pool.
C30_Witness ==
    /\ Ended(1) /\ req[1].status = 201
    /\ Ended(2) /\ req[2].status = 500 /\ req[2].err = "database" /\ req[2].i >= 1

====
